---- MODULE Spec2Model ----
(***************************************************************************)
(* Model of setup.py, the CI/CD bootstrapping script for Unity projects.   *)
(*                                                                         *)
(* Text is modelled as sequences of Unicode code points, so that trimming, *)
(* pattern matching, number parsing and lowercasing are computed on the    *)
(* characters; the character classes are those of the interpreter's        *)
(* Unicode database (14.0.0).  The search path is a sequence of pieces:    *)
(* the separator ":" or a piece of a directory name.  A path of the        *)
(* project tree is the sequence of its components.                         *)
(***************************************************************************)
EXTENDS Naturals, Sequences, FiniteSets, TLC

VARIABLES
    pc,                 \* position of the driver (main and its callees)
    argv,               \* sys.argv[1:]
    tools,              \* the tools shutil.which resolves
    PATH,               \* os.environ["PATH"]
    fs,                 \* content of the files of the project tree
    invoked,            \* external commands invoked so far, with exit codes
    written,            \* paths passed to write_file, in order
    printed,            \* diagnostics printed so far
    ios_bundle_id,      \* main's local
    android_bundle_id,  \* main's local
    exit_status,        \* process exit status, NoExit while running
    path_calls,         \* PATH after each call of _ensure_path
    path_start,         \* PATH before the first call of _ensure_path
    run_in,             \* arguments and command result given to run
    run_out,            \* what run returned
    document,           \* text given to the identifier extractor
    extracted           \* what the extractor returned

vars == <<pc, argv, tools, PATH, fs, invoked, written, printed,
          ios_bundle_id, android_bundle_id, exit_status,
          path_calls, path_start, run_in, run_out, document, extracted>>

main_vars == <<pc, argv, tools, PATH, fs, invoked, written, printed,
               ios_bundle_id, android_bundle_id, exit_status>>
path_vars == <<path_calls, path_start>>
run_vars == <<run_in, run_out>>
extract_vars == <<document, extracted>>

-----------------------------------------------------------------------------
(* Bounds of the model *)

MaxPathLen == 5
MaxCalls == 3
MaxOutLen == 3
MaxDocPieces == 5

-----------------------------------------------------------------------------
(* Values *)

None == [tag |-> "None", val |-> <<>>]
Str(s) == [tag |-> "str", val |-> s]
Raised == [tag |-> "raise", val |-> <<>>]

NoExit == <<>>
Exit(code) == <<code>>

CI_SERVICE_ACCOUNT == "ci-distribution@hcgamesfirebase.iam.gserviceaccount.com"

RECURSIVE SeqsUpTo(_, _)
SeqsUpTo(S, n) ==
    IF n = 0 THEN {<<>>}
    ELSE LET shorter == SeqsUpTo(S, n - 1)
         IN  shorter \cup {Append(s, c) : s \in {t \in shorter : Len(t) = n - 1}, c \in S}

-----------------------------------------------------------------------------
(* Character classes of str.strip(), str.lower() and of the str patterns   *)
(* \s, \d and \w, as ranges <<first, last>> of code points                 *)

CodePoints(rs) == UNION {rs[i][1]..rs[i][2] : i \in 1..Len(rs)}
InRanges(c, rs) == \E i \in 1..Len(rs) : rs[i][1] <= c /\ c <= rs[i][2]

(* str.isspace() *)
SpaceRanges ==
    << <<9, 13>>, <<28, 32>>, <<133, 133>>, <<160, 160>>, <<5760, 5760>>, <<8192, 8202>>,
       <<8232, 8233>>, <<8239, 8239>>, <<8287, 8287>>, <<12288, 12288>> >>

(* str.isdecimal(): every range is a whole number of runs 0..9 *)
DecimalRanges ==
    << <<48, 57>>, <<1632, 1641>>, <<1776, 1785>>, <<1984, 1993>>, <<2406, 2415>>, <<2534, 2543>>,
       <<2662, 2671>>, <<2790, 2799>>, <<2918, 2927>>, <<3046, 3055>>, <<3174, 3183>>, <<3302, 3311>>,
       <<3430, 3439>>, <<3558, 3567>>, <<3664, 3673>>, <<3792, 3801>>, <<3872, 3881>>, <<4160, 4169>>,
       <<4240, 4249>>, <<6112, 6121>>, <<6160, 6169>>, <<6470, 6479>>, <<6608, 6617>>, <<6784, 6793>>,
       <<6800, 6809>>, <<6992, 7001>>, <<7088, 7097>>, <<7232, 7241>>, <<7248, 7257>>, <<42528, 42537>>,
       <<43216, 43225>>, <<43264, 43273>>, <<43472, 43481>>, <<43504, 43513>>, <<43600, 43609>>, <<44016, 44025>>,
       <<65296, 65305>>, <<66720, 66729>>, <<68912, 68921>>, <<69734, 69743>>, <<69872, 69881>>, <<69942, 69951>>,
       <<70096, 70105>>, <<70384, 70393>>, <<70736, 70745>>, <<70864, 70873>>, <<71248, 71257>>, <<71360, 71369>>,
       <<71472, 71481>>, <<71904, 71913>>, <<72016, 72025>>, <<72784, 72793>>, <<73040, 73049>>, <<73120, 73129>>,
       <<92768, 92777>>, <<92864, 92873>>, <<93008, 93017>>, <<120782, 120831>>, <<123200, 123209>>, <<123632, 123641>>,
       <<125264, 125273>>, <<130032, 130041>> >>

(* str.isalnum() *)
AlnumRanges ==
    << <<48, 57>>, <<65, 90>>, <<97, 122>>, <<170, 170>>, <<178, 179>>, <<181, 181>>,
       <<185, 186>>, <<188, 190>>, <<192, 214>>, <<216, 246>>, <<248, 705>>, <<710, 721>>,
       <<736, 740>>, <<748, 748>>, <<750, 750>>, <<880, 884>>, <<886, 887>>, <<890, 893>>,
       <<895, 895>>, <<902, 902>>, <<904, 906>>, <<908, 908>>, <<910, 929>>, <<931, 1013>>,
       <<1015, 1153>>, <<1162, 1327>>, <<1329, 1366>>, <<1369, 1369>>, <<1376, 1416>>, <<1488, 1514>>,
       <<1519, 1522>>, <<1568, 1610>>, <<1632, 1641>>, <<1646, 1647>>, <<1649, 1747>>, <<1749, 1749>>,
       <<1765, 1766>>, <<1774, 1788>>, <<1791, 1791>>, <<1808, 1808>>, <<1810, 1839>>, <<1869, 1957>>,
       <<1969, 1969>>, <<1984, 2026>>, <<2036, 2037>>, <<2042, 2042>>, <<2048, 2069>>, <<2074, 2074>>,
       <<2084, 2084>>, <<2088, 2088>>, <<2112, 2136>>, <<2144, 2154>>, <<2160, 2183>>, <<2185, 2190>>,
       <<2208, 2249>>, <<2308, 2361>>, <<2365, 2365>>, <<2384, 2384>>, <<2392, 2401>>, <<2406, 2415>>,
       <<2417, 2432>>, <<2437, 2444>>, <<2447, 2448>>, <<2451, 2472>>, <<2474, 2480>>, <<2482, 2482>>,
       <<2486, 2489>>, <<2493, 2493>>, <<2510, 2510>>, <<2524, 2525>>, <<2527, 2529>>, <<2534, 2545>>,
       <<2548, 2553>>, <<2556, 2556>>, <<2565, 2570>>, <<2575, 2576>>, <<2579, 2600>>, <<2602, 2608>>,
       <<2610, 2611>>, <<2613, 2614>>, <<2616, 2617>>, <<2649, 2652>>, <<2654, 2654>>, <<2662, 2671>>,
       <<2674, 2676>>, <<2693, 2701>>, <<2703, 2705>>, <<2707, 2728>>, <<2730, 2736>>, <<2738, 2739>>,
       <<2741, 2745>>, <<2749, 2749>>, <<2768, 2768>>, <<2784, 2785>>, <<2790, 2799>>, <<2809, 2809>>,
       <<2821, 2828>>, <<2831, 2832>>, <<2835, 2856>>, <<2858, 2864>>, <<2866, 2867>>, <<2869, 2873>>,
       <<2877, 2877>>, <<2908, 2909>>, <<2911, 2913>>, <<2918, 2927>>, <<2929, 2935>>, <<2947, 2947>>,
       <<2949, 2954>>, <<2958, 2960>>, <<2962, 2965>>, <<2969, 2970>>, <<2972, 2972>>, <<2974, 2975>>,
       <<2979, 2980>>, <<2984, 2986>>, <<2990, 3001>>, <<3024, 3024>>, <<3046, 3058>>, <<3077, 3084>>,
       <<3086, 3088>>, <<3090, 3112>>, <<3114, 3129>>, <<3133, 3133>>, <<3160, 3162>>, <<3165, 3165>>,
       <<3168, 3169>>, <<3174, 3183>>, <<3192, 3198>>, <<3200, 3200>>, <<3205, 3212>>, <<3214, 3216>>,
       <<3218, 3240>>, <<3242, 3251>>, <<3253, 3257>>, <<3261, 3261>>, <<3293, 3294>>, <<3296, 3297>>,
       <<3302, 3311>>, <<3313, 3314>>, <<3332, 3340>>, <<3342, 3344>>, <<3346, 3386>>, <<3389, 3389>>,
       <<3406, 3406>>, <<3412, 3414>>, <<3416, 3425>>, <<3430, 3448>>, <<3450, 3455>>, <<3461, 3478>>,
       <<3482, 3505>>, <<3507, 3515>>, <<3517, 3517>>, <<3520, 3526>>, <<3558, 3567>>, <<3585, 3632>>,
       <<3634, 3635>>, <<3648, 3654>>, <<3664, 3673>>, <<3713, 3714>>, <<3716, 3716>>, <<3718, 3722>>,
       <<3724, 3747>>, <<3749, 3749>>, <<3751, 3760>>, <<3762, 3763>>, <<3773, 3773>>, <<3776, 3780>>,
       <<3782, 3782>>, <<3792, 3801>>, <<3804, 3807>>, <<3840, 3840>>, <<3872, 3891>>, <<3904, 3911>>,
       <<3913, 3948>>, <<3976, 3980>>, <<4096, 4138>>, <<4159, 4169>>, <<4176, 4181>>, <<4186, 4189>>,
       <<4193, 4193>>, <<4197, 4198>>, <<4206, 4208>>, <<4213, 4225>>, <<4238, 4238>>, <<4240, 4249>>,
       <<4256, 4293>>, <<4295, 4295>>, <<4301, 4301>>, <<4304, 4346>>, <<4348, 4680>>, <<4682, 4685>>,
       <<4688, 4694>>, <<4696, 4696>>, <<4698, 4701>>, <<4704, 4744>>, <<4746, 4749>>, <<4752, 4784>>,
       <<4786, 4789>>, <<4792, 4798>>, <<4800, 4800>>, <<4802, 4805>>, <<4808, 4822>>, <<4824, 4880>>,
       <<4882, 4885>>, <<4888, 4954>>, <<4969, 4988>>, <<4992, 5007>>, <<5024, 5109>>, <<5112, 5117>>,
       <<5121, 5740>>, <<5743, 5759>>, <<5761, 5786>>, <<5792, 5866>>, <<5870, 5880>>, <<5888, 5905>>,
       <<5919, 5937>>, <<5952, 5969>>, <<5984, 5996>>, <<5998, 6000>>, <<6016, 6067>>, <<6103, 6103>>,
       <<6108, 6108>>, <<6112, 6121>>, <<6128, 6137>>, <<6160, 6169>>, <<6176, 6264>>, <<6272, 6276>>,
       <<6279, 6312>>, <<6314, 6314>>, <<6320, 6389>>, <<6400, 6430>>, <<6470, 6509>>, <<6512, 6516>>,
       <<6528, 6571>>, <<6576, 6601>>, <<6608, 6618>>, <<6656, 6678>>, <<6688, 6740>>, <<6784, 6793>>,
       <<6800, 6809>>, <<6823, 6823>>, <<6917, 6963>>, <<6981, 6988>>, <<6992, 7001>>, <<7043, 7072>>,
       <<7086, 7141>>, <<7168, 7203>>, <<7232, 7241>>, <<7245, 7293>>, <<7296, 7304>>, <<7312, 7354>>,
       <<7357, 7359>>, <<7401, 7404>>, <<7406, 7411>>, <<7413, 7414>>, <<7418, 7418>>, <<7424, 7615>>,
       <<7680, 7957>>, <<7960, 7965>>, <<7968, 8005>>, <<8008, 8013>>, <<8016, 8023>>, <<8025, 8025>>,
       <<8027, 8027>>, <<8029, 8029>>, <<8031, 8061>>, <<8064, 8116>>, <<8118, 8124>>, <<8126, 8126>>,
       <<8130, 8132>>, <<8134, 8140>>, <<8144, 8147>>, <<8150, 8155>>, <<8160, 8172>>, <<8178, 8180>>,
       <<8182, 8188>>, <<8304, 8305>>, <<8308, 8313>>, <<8319, 8329>>, <<8336, 8348>>, <<8450, 8450>>,
       <<8455, 8455>>, <<8458, 8467>>, <<8469, 8469>>, <<8473, 8477>>, <<8484, 8484>>, <<8486, 8486>>,
       <<8488, 8488>>, <<8490, 8493>>, <<8495, 8505>>, <<8508, 8511>>, <<8517, 8521>>, <<8526, 8526>>,
       <<8528, 8585>>, <<9312, 9371>>, <<9450, 9471>>, <<10102, 10131>>, <<11264, 11492>>, <<11499, 11502>>,
       <<11506, 11507>>, <<11517, 11517>>, <<11520, 11557>>, <<11559, 11559>>, <<11565, 11565>>, <<11568, 11623>>,
       <<11631, 11631>>, <<11648, 11670>>, <<11680, 11686>>, <<11688, 11694>>, <<11696, 11702>>, <<11704, 11710>>,
       <<11712, 11718>>, <<11720, 11726>>, <<11728, 11734>>, <<11736, 11742>>, <<11823, 11823>>, <<12293, 12295>>,
       <<12321, 12329>>, <<12337, 12341>>, <<12344, 12348>>, <<12353, 12438>>, <<12445, 12447>>, <<12449, 12538>>,
       <<12540, 12543>>, <<12549, 12591>>, <<12593, 12686>>, <<12690, 12693>>, <<12704, 12735>>, <<12784, 12799>>,
       <<12832, 12841>>, <<12872, 12879>>, <<12881, 12895>>, <<12928, 12937>>, <<12977, 12991>>, <<13312, 19903>>,
       <<19968, 42124>>, <<42192, 42237>>, <<42240, 42508>>, <<42512, 42539>>, <<42560, 42606>>, <<42623, 42653>>,
       <<42656, 42735>>, <<42775, 42783>>, <<42786, 42888>>, <<42891, 42954>>, <<42960, 42961>>, <<42963, 42963>>,
       <<42965, 42969>>, <<42994, 43009>>, <<43011, 43013>>, <<43015, 43018>>, <<43020, 43042>>, <<43056, 43061>>,
       <<43072, 43123>>, <<43138, 43187>>, <<43216, 43225>>, <<43250, 43255>>, <<43259, 43259>>, <<43261, 43262>>,
       <<43264, 43301>>, <<43312, 43334>>, <<43360, 43388>>, <<43396, 43442>>, <<43471, 43481>>, <<43488, 43492>>,
       <<43494, 43518>>, <<43520, 43560>>, <<43584, 43586>>, <<43588, 43595>>, <<43600, 43609>>, <<43616, 43638>>,
       <<43642, 43642>>, <<43646, 43695>>, <<43697, 43697>>, <<43701, 43702>>, <<43705, 43709>>, <<43712, 43712>>,
       <<43714, 43714>>, <<43739, 43741>>, <<43744, 43754>>, <<43762, 43764>>, <<43777, 43782>>, <<43785, 43790>>,
       <<43793, 43798>>, <<43808, 43814>>, <<43816, 43822>>, <<43824, 43866>>, <<43868, 43881>>, <<43888, 44002>>,
       <<44016, 44025>>, <<44032, 55203>>, <<55216, 55238>>, <<55243, 55291>>, <<63744, 64109>>, <<64112, 64217>>,
       <<64256, 64262>>, <<64275, 64279>>, <<64285, 64285>>, <<64287, 64296>>, <<64298, 64310>>, <<64312, 64316>>,
       <<64318, 64318>>, <<64320, 64321>>, <<64323, 64324>>, <<64326, 64433>>, <<64467, 64829>>, <<64848, 64911>>,
       <<64914, 64967>>, <<65008, 65019>>, <<65136, 65140>>, <<65142, 65276>>, <<65296, 65305>>, <<65313, 65338>>,
       <<65345, 65370>>, <<65382, 65470>>, <<65474, 65479>>, <<65482, 65487>>, <<65490, 65495>>, <<65498, 65500>>,
       <<65536, 65547>>, <<65549, 65574>>, <<65576, 65594>>, <<65596, 65597>>, <<65599, 65613>>, <<65616, 65629>>,
       <<65664, 65786>>, <<65799, 65843>>, <<65856, 65912>>, <<65930, 65931>>, <<66176, 66204>>, <<66208, 66256>>,
       <<66273, 66299>>, <<66304, 66339>>, <<66349, 66378>>, <<66384, 66421>>, <<66432, 66461>>, <<66464, 66499>>,
       <<66504, 66511>>, <<66513, 66517>>, <<66560, 66717>>, <<66720, 66729>>, <<66736, 66771>>, <<66776, 66811>>,
       <<66816, 66855>>, <<66864, 66915>>, <<66928, 66938>>, <<66940, 66954>>, <<66956, 66962>>, <<66964, 66965>>,
       <<66967, 66977>>, <<66979, 66993>>, <<66995, 67001>>, <<67003, 67004>>, <<67072, 67382>>, <<67392, 67413>>,
       <<67424, 67431>>, <<67456, 67461>>, <<67463, 67504>>, <<67506, 67514>>, <<67584, 67589>>, <<67592, 67592>>,
       <<67594, 67637>>, <<67639, 67640>>, <<67644, 67644>>, <<67647, 67669>>, <<67672, 67702>>, <<67705, 67742>>,
       <<67751, 67759>>, <<67808, 67826>>, <<67828, 67829>>, <<67835, 67867>>, <<67872, 67897>>, <<67968, 68023>>,
       <<68028, 68047>>, <<68050, 68096>>, <<68112, 68115>>, <<68117, 68119>>, <<68121, 68149>>, <<68160, 68168>>,
       <<68192, 68222>>, <<68224, 68255>>, <<68288, 68295>>, <<68297, 68324>>, <<68331, 68335>>, <<68352, 68405>>,
       <<68416, 68437>>, <<68440, 68466>>, <<68472, 68497>>, <<68521, 68527>>, <<68608, 68680>>, <<68736, 68786>>,
       <<68800, 68850>>, <<68858, 68899>>, <<68912, 68921>>, <<69216, 69246>>, <<69248, 69289>>, <<69296, 69297>>,
       <<69376, 69415>>, <<69424, 69445>>, <<69457, 69460>>, <<69488, 69505>>, <<69552, 69579>>, <<69600, 69622>>,
       <<69635, 69687>>, <<69714, 69743>>, <<69745, 69746>>, <<69749, 69749>>, <<69763, 69807>>, <<69840, 69864>>,
       <<69872, 69881>>, <<69891, 69926>>, <<69942, 69951>>, <<69956, 69956>>, <<69959, 69959>>, <<69968, 70002>>,
       <<70006, 70006>>, <<70019, 70066>>, <<70081, 70084>>, <<70096, 70106>>, <<70108, 70108>>, <<70113, 70132>>,
       <<70144, 70161>>, <<70163, 70187>>, <<70272, 70278>>, <<70280, 70280>>, <<70282, 70285>>, <<70287, 70301>>,
       <<70303, 70312>>, <<70320, 70366>>, <<70384, 70393>>, <<70405, 70412>>, <<70415, 70416>>, <<70419, 70440>>,
       <<70442, 70448>>, <<70450, 70451>>, <<70453, 70457>>, <<70461, 70461>>, <<70480, 70480>>, <<70493, 70497>>,
       <<70656, 70708>>, <<70727, 70730>>, <<70736, 70745>>, <<70751, 70753>>, <<70784, 70831>>, <<70852, 70853>>,
       <<70855, 70855>>, <<70864, 70873>>, <<71040, 71086>>, <<71128, 71131>>, <<71168, 71215>>, <<71236, 71236>>,
       <<71248, 71257>>, <<71296, 71338>>, <<71352, 71352>>, <<71360, 71369>>, <<71424, 71450>>, <<71472, 71483>>,
       <<71488, 71494>>, <<71680, 71723>>, <<71840, 71922>>, <<71935, 71942>>, <<71945, 71945>>, <<71948, 71955>>,
       <<71957, 71958>>, <<71960, 71983>>, <<71999, 71999>>, <<72001, 72001>>, <<72016, 72025>>, <<72096, 72103>>,
       <<72106, 72144>>, <<72161, 72161>>, <<72163, 72163>>, <<72192, 72192>>, <<72203, 72242>>, <<72250, 72250>>,
       <<72272, 72272>>, <<72284, 72329>>, <<72349, 72349>>, <<72368, 72440>>, <<72704, 72712>>, <<72714, 72750>>,
       <<72768, 72768>>, <<72784, 72812>>, <<72818, 72847>>, <<72960, 72966>>, <<72968, 72969>>, <<72971, 73008>>,
       <<73030, 73030>>, <<73040, 73049>>, <<73056, 73061>>, <<73063, 73064>>, <<73066, 73097>>, <<73112, 73112>>,
       <<73120, 73129>>, <<73440, 73458>>, <<73648, 73648>>, <<73664, 73684>>, <<73728, 74649>>, <<74752, 74862>>,
       <<74880, 75075>>, <<77712, 77808>>, <<77824, 78894>>, <<82944, 83526>>, <<92160, 92728>>, <<92736, 92766>>,
       <<92768, 92777>>, <<92784, 92862>>, <<92864, 92873>>, <<92880, 92909>>, <<92928, 92975>>, <<92992, 92995>>,
       <<93008, 93017>>, <<93019, 93025>>, <<93027, 93047>>, <<93053, 93071>>, <<93760, 93846>>, <<93952, 94026>>,
       <<94032, 94032>>, <<94099, 94111>>, <<94176, 94177>>, <<94179, 94179>>, <<94208, 100343>>, <<100352, 101589>>,
       <<101632, 101640>>, <<110576, 110579>>, <<110581, 110587>>, <<110589, 110590>>, <<110592, 110882>>, <<110928, 110930>>,
       <<110948, 110951>>, <<110960, 111355>>, <<113664, 113770>>, <<113776, 113788>>, <<113792, 113800>>, <<113808, 113817>>,
       <<119520, 119539>>, <<119648, 119672>>, <<119808, 119892>>, <<119894, 119964>>, <<119966, 119967>>, <<119970, 119970>>,
       <<119973, 119974>>, <<119977, 119980>>, <<119982, 119993>>, <<119995, 119995>>, <<119997, 120003>>, <<120005, 120069>>,
       <<120071, 120074>>, <<120077, 120084>>, <<120086, 120092>>, <<120094, 120121>>, <<120123, 120126>>, <<120128, 120132>>,
       <<120134, 120134>>, <<120138, 120144>>, <<120146, 120485>>, <<120488, 120512>>, <<120514, 120538>>, <<120540, 120570>>,
       <<120572, 120596>>, <<120598, 120628>>, <<120630, 120654>>, <<120656, 120686>>, <<120688, 120712>>, <<120714, 120744>>,
       <<120746, 120770>>, <<120772, 120779>>, <<120782, 120831>>, <<122624, 122654>>, <<123136, 123180>>, <<123191, 123197>>,
       <<123200, 123209>>, <<123214, 123214>>, <<123536, 123565>>, <<123584, 123627>>, <<123632, 123641>>, <<124896, 124902>>,
       <<124904, 124907>>, <<124909, 124910>>, <<124912, 124926>>, <<124928, 125124>>, <<125127, 125135>>, <<125184, 125251>>,
       <<125259, 125259>>, <<125264, 125273>>, <<126065, 126123>>, <<126125, 126127>>, <<126129, 126132>>, <<126209, 126253>>,
       <<126255, 126269>>, <<126464, 126467>>, <<126469, 126495>>, <<126497, 126498>>, <<126500, 126500>>, <<126503, 126503>>,
       <<126505, 126514>>, <<126516, 126519>>, <<126521, 126521>>, <<126523, 126523>>, <<126530, 126530>>, <<126535, 126535>>,
       <<126537, 126537>>, <<126539, 126539>>, <<126541, 126543>>, <<126545, 126546>>, <<126548, 126548>>, <<126551, 126551>>,
       <<126553, 126553>>, <<126555, 126555>>, <<126557, 126557>>, <<126559, 126559>>, <<126561, 126562>>, <<126564, 126564>>,
       <<126567, 126570>>, <<126572, 126578>>, <<126580, 126583>>, <<126585, 126588>>, <<126590, 126590>>, <<126592, 126601>>,
       <<126603, 126619>>, <<126625, 126627>>, <<126629, 126633>>, <<126635, 126651>>, <<127232, 127244>>, <<130032, 130041>>,
       <<131072, 173791>>, <<173824, 177976>>, <<177984, 178205>>, <<178208, 183969>>, <<183984, 191456>>, <<194560, 195101>>,
       <<196608, 201546>> >>

(* cased and not case-ignorable *)
CasedRanges ==
    << <<65, 90>>, <<97, 122>>, <<170, 170>>, <<181, 181>>, <<186, 186>>, <<192, 214>>,
       <<216, 246>>, <<248, 442>>, <<444, 447>>, <<452, 659>>, <<661, 687>>, <<880, 883>>,
       <<886, 887>>, <<891, 893>>, <<895, 895>>, <<902, 902>>, <<904, 906>>, <<908, 908>>,
       <<910, 929>>, <<931, 1013>>, <<1015, 1153>>, <<1162, 1327>>, <<1329, 1366>>, <<1376, 1416>>,
       <<4256, 4293>>, <<4295, 4295>>, <<4301, 4301>>, <<4304, 4346>>, <<4349, 4351>>, <<5024, 5109>>,
       <<5112, 5117>>, <<7296, 7304>>, <<7312, 7354>>, <<7357, 7359>>, <<7424, 7467>>, <<7531, 7543>>,
       <<7545, 7578>>, <<7680, 7957>>, <<7960, 7965>>, <<7968, 8005>>, <<8008, 8013>>, <<8016, 8023>>,
       <<8025, 8025>>, <<8027, 8027>>, <<8029, 8029>>, <<8031, 8061>>, <<8064, 8116>>, <<8118, 8124>>,
       <<8126, 8126>>, <<8130, 8132>>, <<8134, 8140>>, <<8144, 8147>>, <<8150, 8155>>, <<8160, 8172>>,
       <<8178, 8180>>, <<8182, 8188>>, <<8450, 8450>>, <<8455, 8455>>, <<8458, 8467>>, <<8469, 8469>>,
       <<8473, 8477>>, <<8484, 8484>>, <<8486, 8486>>, <<8488, 8488>>, <<8490, 8493>>, <<8495, 8500>>,
       <<8505, 8505>>, <<8508, 8511>>, <<8517, 8521>>, <<8526, 8526>>, <<8544, 8575>>, <<8579, 8580>>,
       <<9398, 9449>>, <<11264, 11387>>, <<11390, 11492>>, <<11499, 11502>>, <<11506, 11507>>, <<11520, 11557>>,
       <<11559, 11559>>, <<11565, 11565>>, <<42560, 42605>>, <<42624, 42651>>, <<42786, 42863>>, <<42865, 42887>>,
       <<42891, 42894>>, <<42896, 42954>>, <<42960, 42961>>, <<42963, 42963>>, <<42965, 42969>>, <<42997, 42998>>,
       <<43002, 43002>>, <<43824, 43866>>, <<43872, 43880>>, <<43888, 43967>>, <<64256, 64262>>, <<64275, 64279>>,
       <<65313, 65338>>, <<65345, 65370>>, <<66560, 66639>>, <<66736, 66771>>, <<66776, 66811>>, <<66928, 66938>>,
       <<66940, 66954>>, <<66956, 66962>>, <<66964, 66965>>, <<66967, 66977>>, <<66979, 66993>>, <<66995, 67001>>,
       <<67003, 67004>>, <<68736, 68786>>, <<68800, 68850>>, <<71840, 71903>>, <<93760, 93823>>, <<119808, 119892>>,
       <<119894, 119964>>, <<119966, 119967>>, <<119970, 119970>>, <<119973, 119974>>, <<119977, 119980>>, <<119982, 119993>>,
       <<119995, 119995>>, <<119997, 120003>>, <<120005, 120069>>, <<120071, 120074>>, <<120077, 120084>>, <<120086, 120092>>,
       <<120094, 120121>>, <<120123, 120126>>, <<120128, 120132>>, <<120134, 120134>>, <<120138, 120144>>, <<120146, 120485>>,
       <<120488, 120512>>, <<120514, 120538>>, <<120540, 120570>>, <<120572, 120596>>, <<120598, 120628>>, <<120630, 120654>>,
       <<120656, 120686>>, <<120688, 120712>>, <<120714, 120744>>, <<120746, 120770>>, <<120772, 120779>>, <<122624, 122633>>,
       <<122635, 122654>>, <<125184, 125251>>, <<127280, 127305>>, <<127312, 127337>>, <<127344, 127369>> >>

CaseIgnorableRanges ==
    << <<39, 39>>, <<46, 46>>, <<58, 58>>, <<94, 94>>, <<96, 96>>, <<168, 168>>,
       <<173, 173>>, <<175, 175>>, <<180, 180>>, <<183, 184>>, <<688, 879>>, <<884, 885>>,
       <<890, 890>>, <<900, 901>>, <<903, 903>>, <<1155, 1161>>, <<1369, 1369>>, <<1375, 1375>>,
       <<1425, 1469>>, <<1471, 1471>>, <<1473, 1474>>, <<1476, 1477>>, <<1479, 1479>>, <<1524, 1524>>,
       <<1536, 1541>>, <<1552, 1562>>, <<1564, 1564>>, <<1600, 1600>>, <<1611, 1631>>, <<1648, 1648>>,
       <<1750, 1757>>, <<1759, 1768>>, <<1770, 1773>>, <<1807, 1807>>, <<1809, 1809>>, <<1840, 1866>>,
       <<1958, 1968>>, <<2027, 2037>>, <<2042, 2042>>, <<2045, 2045>>, <<2070, 2093>>, <<2137, 2139>>,
       <<2184, 2184>>, <<2192, 2193>>, <<2200, 2207>>, <<2249, 2306>>, <<2362, 2362>>, <<2364, 2364>>,
       <<2369, 2376>>, <<2381, 2381>>, <<2385, 2391>>, <<2402, 2403>>, <<2417, 2417>>, <<2433, 2433>>,
       <<2492, 2492>>, <<2497, 2500>>, <<2509, 2509>>, <<2530, 2531>>, <<2558, 2558>>, <<2561, 2562>>,
       <<2620, 2620>>, <<2625, 2626>>, <<2631, 2632>>, <<2635, 2637>>, <<2641, 2641>>, <<2672, 2673>>,
       <<2677, 2677>>, <<2689, 2690>>, <<2748, 2748>>, <<2753, 2757>>, <<2759, 2760>>, <<2765, 2765>>,
       <<2786, 2787>>, <<2810, 2815>>, <<2817, 2817>>, <<2876, 2876>>, <<2879, 2879>>, <<2881, 2884>>,
       <<2893, 2893>>, <<2901, 2902>>, <<2914, 2915>>, <<2946, 2946>>, <<3008, 3008>>, <<3021, 3021>>,
       <<3072, 3072>>, <<3076, 3076>>, <<3132, 3132>>, <<3134, 3136>>, <<3142, 3144>>, <<3146, 3149>>,
       <<3157, 3158>>, <<3170, 3171>>, <<3201, 3201>>, <<3260, 3260>>, <<3263, 3263>>, <<3270, 3270>>,
       <<3276, 3277>>, <<3298, 3299>>, <<3328, 3329>>, <<3387, 3388>>, <<3393, 3396>>, <<3405, 3405>>,
       <<3426, 3427>>, <<3457, 3457>>, <<3530, 3530>>, <<3538, 3540>>, <<3542, 3542>>, <<3633, 3633>>,
       <<3636, 3642>>, <<3654, 3662>>, <<3761, 3761>>, <<3764, 3772>>, <<3782, 3782>>, <<3784, 3789>>,
       <<3864, 3865>>, <<3893, 3893>>, <<3895, 3895>>, <<3897, 3897>>, <<3953, 3966>>, <<3968, 3972>>,
       <<3974, 3975>>, <<3981, 3991>>, <<3993, 4028>>, <<4038, 4038>>, <<4141, 4144>>, <<4146, 4151>>,
       <<4153, 4154>>, <<4157, 4158>>, <<4184, 4185>>, <<4190, 4192>>, <<4209, 4212>>, <<4226, 4226>>,
       <<4229, 4230>>, <<4237, 4237>>, <<4253, 4253>>, <<4348, 4348>>, <<4957, 4959>>, <<5906, 5908>>,
       <<5938, 5939>>, <<5970, 5971>>, <<6002, 6003>>, <<6068, 6069>>, <<6071, 6077>>, <<6086, 6086>>,
       <<6089, 6099>>, <<6103, 6103>>, <<6109, 6109>>, <<6155, 6159>>, <<6211, 6211>>, <<6277, 6278>>,
       <<6313, 6313>>, <<6432, 6434>>, <<6439, 6440>>, <<6450, 6450>>, <<6457, 6459>>, <<6679, 6680>>,
       <<6683, 6683>>, <<6742, 6742>>, <<6744, 6750>>, <<6752, 6752>>, <<6754, 6754>>, <<6757, 6764>>,
       <<6771, 6780>>, <<6783, 6783>>, <<6823, 6823>>, <<6832, 6862>>, <<6912, 6915>>, <<6964, 6964>>,
       <<6966, 6970>>, <<6972, 6972>>, <<6978, 6978>>, <<7019, 7027>>, <<7040, 7041>>, <<7074, 7077>>,
       <<7080, 7081>>, <<7083, 7085>>, <<7142, 7142>>, <<7144, 7145>>, <<7149, 7149>>, <<7151, 7153>>,
       <<7212, 7219>>, <<7222, 7223>>, <<7288, 7293>>, <<7376, 7378>>, <<7380, 7392>>, <<7394, 7400>>,
       <<7405, 7405>>, <<7412, 7412>>, <<7416, 7417>>, <<7468, 7530>>, <<7544, 7544>>, <<7579, 7679>>,
       <<8125, 8125>>, <<8127, 8129>>, <<8141, 8143>>, <<8157, 8159>>, <<8173, 8175>>, <<8189, 8190>>,
       <<8203, 8207>>, <<8216, 8217>>, <<8228, 8228>>, <<8231, 8231>>, <<8234, 8238>>, <<8288, 8292>>,
       <<8294, 8303>>, <<8305, 8305>>, <<8319, 8319>>, <<8336, 8348>>, <<8400, 8432>>, <<11388, 11389>>,
       <<11503, 11505>>, <<11631, 11631>>, <<11647, 11647>>, <<11744, 11775>>, <<11823, 11823>>, <<12293, 12293>>,
       <<12330, 12333>>, <<12337, 12341>>, <<12347, 12347>>, <<12441, 12446>>, <<12540, 12542>>, <<40981, 40981>>,
       <<42232, 42237>>, <<42508, 42508>>, <<42607, 42610>>, <<42612, 42621>>, <<42623, 42623>>, <<42652, 42655>>,
       <<42736, 42737>>, <<42752, 42785>>, <<42864, 42864>>, <<42888, 42890>>, <<42994, 42996>>, <<43000, 43001>>,
       <<43010, 43010>>, <<43014, 43014>>, <<43019, 43019>>, <<43045, 43046>>, <<43052, 43052>>, <<43204, 43205>>,
       <<43232, 43249>>, <<43263, 43263>>, <<43302, 43309>>, <<43335, 43345>>, <<43392, 43394>>, <<43443, 43443>>,
       <<43446, 43449>>, <<43452, 43453>>, <<43471, 43471>>, <<43493, 43494>>, <<43561, 43566>>, <<43569, 43570>>,
       <<43573, 43574>>, <<43587, 43587>>, <<43596, 43596>>, <<43632, 43632>>, <<43644, 43644>>, <<43696, 43696>>,
       <<43698, 43700>>, <<43703, 43704>>, <<43710, 43711>>, <<43713, 43713>>, <<43741, 43741>>, <<43756, 43757>>,
       <<43763, 43764>>, <<43766, 43766>>, <<43867, 43871>>, <<43881, 43883>>, <<44005, 44005>>, <<44008, 44008>>,
       <<44013, 44013>>, <<64286, 64286>>, <<64434, 64450>>, <<65024, 65039>>, <<65043, 65043>>, <<65056, 65071>>,
       <<65106, 65106>>, <<65109, 65109>>, <<65279, 65279>>, <<65287, 65287>>, <<65294, 65294>>, <<65306, 65306>>,
       <<65342, 65342>>, <<65344, 65344>>, <<65392, 65392>>, <<65438, 65439>>, <<65507, 65507>>, <<65529, 65531>>,
       <<66045, 66045>>, <<66272, 66272>>, <<66422, 66426>>, <<67456, 67461>>, <<67463, 67504>>, <<67506, 67514>>,
       <<68097, 68099>>, <<68101, 68102>>, <<68108, 68111>>, <<68152, 68154>>, <<68159, 68159>>, <<68325, 68326>>,
       <<68900, 68903>>, <<69291, 69292>>, <<69446, 69456>>, <<69506, 69509>>, <<69633, 69633>>, <<69688, 69702>>,
       <<69744, 69744>>, <<69747, 69748>>, <<69759, 69761>>, <<69811, 69814>>, <<69817, 69818>>, <<69821, 69821>>,
       <<69826, 69826>>, <<69837, 69837>>, <<69888, 69890>>, <<69927, 69931>>, <<69933, 69940>>, <<70003, 70003>>,
       <<70016, 70017>>, <<70070, 70078>>, <<70089, 70092>>, <<70095, 70095>>, <<70191, 70193>>, <<70196, 70196>>,
       <<70198, 70199>>, <<70206, 70206>>, <<70367, 70367>>, <<70371, 70378>>, <<70400, 70401>>, <<70459, 70460>>,
       <<70464, 70464>>, <<70502, 70508>>, <<70512, 70516>>, <<70712, 70719>>, <<70722, 70724>>, <<70726, 70726>>,
       <<70750, 70750>>, <<70835, 70840>>, <<70842, 70842>>, <<70847, 70848>>, <<70850, 70851>>, <<71090, 71093>>,
       <<71100, 71101>>, <<71103, 71104>>, <<71132, 71133>>, <<71219, 71226>>, <<71229, 71229>>, <<71231, 71232>>,
       <<71339, 71339>>, <<71341, 71341>>, <<71344, 71349>>, <<71351, 71351>>, <<71453, 71455>>, <<71458, 71461>>,
       <<71463, 71467>>, <<71727, 71735>>, <<71737, 71738>>, <<71995, 71996>>, <<71998, 71998>>, <<72003, 72003>>,
       <<72148, 72151>>, <<72154, 72155>>, <<72160, 72160>>, <<72193, 72202>>, <<72243, 72248>>, <<72251, 72254>>,
       <<72263, 72263>>, <<72273, 72278>>, <<72281, 72283>>, <<72330, 72342>>, <<72344, 72345>>, <<72752, 72758>>,
       <<72760, 72765>>, <<72767, 72767>>, <<72850, 72871>>, <<72874, 72880>>, <<72882, 72883>>, <<72885, 72886>>,
       <<73009, 73014>>, <<73018, 73018>>, <<73020, 73021>>, <<73023, 73029>>, <<73031, 73031>>, <<73104, 73105>>,
       <<73109, 73109>>, <<73111, 73111>>, <<73459, 73460>>, <<78896, 78904>>, <<92912, 92916>>, <<92976, 92982>>,
       <<92992, 92995>>, <<94031, 94031>>, <<94095, 94111>>, <<94176, 94177>>, <<94179, 94180>>, <<110576, 110579>>,
       <<110581, 110587>>, <<110589, 110590>>, <<113821, 113822>>, <<113824, 113827>>, <<118528, 118573>>, <<118576, 118598>>,
       <<119143, 119145>>, <<119155, 119170>>, <<119173, 119179>>, <<119210, 119213>>, <<119362, 119364>>, <<121344, 121398>>,
       <<121403, 121452>>, <<121461, 121461>>, <<121476, 121476>>, <<121499, 121503>>, <<121505, 121519>>, <<122880, 122886>>,
       <<122888, 122904>>, <<122907, 122913>>, <<122915, 122916>>, <<122918, 122922>>, <<123184, 123197>>, <<123566, 123566>>,
       <<123628, 123631>>, <<125136, 125142>>, <<125252, 125259>>, <<127995, 127999>>, <<917505, 917505>>, <<917536, 917631>>,
       <<917760, 917999>> >>

(* simple lowercase mappings: <<first, last, step, added, subtracted>> *)
LowerRuns ==
    << <<65, 90, 1, 32, 0>>, <<192, 214, 1, 32, 0>>, <<216, 222, 1, 32, 0>>, <<256, 302, 2, 1, 0>>,
       <<306, 310, 2, 1, 0>>, <<313, 327, 2, 1, 0>>, <<330, 374, 2, 1, 0>>, <<376, 376, 1, 0, 121>>,
       <<377, 381, 2, 1, 0>>, <<385, 385, 1, 210, 0>>, <<386, 388, 2, 1, 0>>, <<390, 390, 1, 206, 0>>,
       <<391, 391, 1, 1, 0>>, <<393, 394, 1, 205, 0>>, <<395, 395, 1, 1, 0>>, <<398, 398, 1, 79, 0>>,
       <<399, 399, 1, 202, 0>>, <<400, 400, 1, 203, 0>>, <<401, 401, 1, 1, 0>>, <<403, 403, 1, 205, 0>>,
       <<404, 404, 1, 207, 0>>, <<406, 406, 1, 211, 0>>, <<407, 407, 1, 209, 0>>, <<408, 408, 1, 1, 0>>,
       <<412, 412, 1, 211, 0>>, <<413, 413, 1, 213, 0>>, <<415, 415, 1, 214, 0>>, <<416, 420, 2, 1, 0>>,
       <<422, 422, 1, 218, 0>>, <<423, 423, 1, 1, 0>>, <<425, 425, 1, 218, 0>>, <<428, 428, 1, 1, 0>>,
       <<430, 430, 1, 218, 0>>, <<431, 431, 1, 1, 0>>, <<433, 434, 1, 217, 0>>, <<435, 437, 2, 1, 0>>,
       <<439, 439, 1, 219, 0>>, <<440, 440, 1, 1, 0>>, <<444, 444, 1, 1, 0>>, <<452, 452, 1, 2, 0>>,
       <<453, 453, 1, 1, 0>>, <<455, 455, 1, 2, 0>>, <<456, 456, 1, 1, 0>>, <<458, 458, 1, 2, 0>>,
       <<459, 475, 2, 1, 0>>, <<478, 494, 2, 1, 0>>, <<497, 497, 1, 2, 0>>, <<498, 500, 2, 1, 0>>,
       <<502, 502, 1, 0, 97>>, <<503, 503, 1, 0, 56>>, <<504, 542, 2, 1, 0>>, <<544, 544, 1, 0, 130>>,
       <<546, 562, 2, 1, 0>>, <<570, 570, 1, 10795, 0>>, <<571, 571, 1, 1, 0>>, <<573, 573, 1, 0, 163>>,
       <<574, 574, 1, 10792, 0>>, <<577, 577, 1, 1, 0>>, <<579, 579, 1, 0, 195>>, <<580, 580, 1, 69, 0>>,
       <<581, 581, 1, 71, 0>>, <<582, 590, 2, 1, 0>>, <<880, 882, 2, 1, 0>>, <<886, 886, 1, 1, 0>>,
       <<895, 895, 1, 116, 0>>, <<902, 902, 1, 38, 0>>, <<904, 906, 1, 37, 0>>, <<908, 908, 1, 64, 0>>,
       <<910, 911, 1, 63, 0>>, <<913, 929, 1, 32, 0>>, <<932, 939, 1, 32, 0>>, <<975, 975, 1, 8, 0>>,
       <<984, 1006, 2, 1, 0>>, <<1012, 1012, 1, 0, 60>>, <<1015, 1015, 1, 1, 0>>, <<1017, 1017, 1, 0, 7>>,
       <<1018, 1018, 1, 1, 0>>, <<1021, 1023, 1, 0, 130>>, <<1024, 1039, 1, 80, 0>>, <<1040, 1071, 1, 32, 0>>,
       <<1120, 1152, 2, 1, 0>>, <<1162, 1214, 2, 1, 0>>, <<1216, 1216, 1, 15, 0>>, <<1217, 1229, 2, 1, 0>>,
       <<1232, 1326, 2, 1, 0>>, <<1329, 1366, 1, 48, 0>>, <<4256, 4293, 1, 7264, 0>>, <<4295, 4295, 1, 7264, 0>>,
       <<4301, 4301, 1, 7264, 0>>, <<5024, 5103, 1, 38864, 0>>, <<5104, 5109, 1, 8, 0>>, <<7312, 7354, 1, 0, 3008>>,
       <<7357, 7359, 1, 0, 3008>>, <<7680, 7828, 2, 1, 0>>, <<7838, 7838, 1, 0, 7615>>, <<7840, 7934, 2, 1, 0>>,
       <<7944, 7951, 1, 0, 8>>, <<7960, 7965, 1, 0, 8>>, <<7976, 7983, 1, 0, 8>>, <<7992, 7999, 1, 0, 8>>,
       <<8008, 8013, 1, 0, 8>>, <<8025, 8031, 2, 0, 8>>, <<8040, 8047, 1, 0, 8>>, <<8072, 8079, 1, 0, 8>>,
       <<8088, 8095, 1, 0, 8>>, <<8104, 8111, 1, 0, 8>>, <<8120, 8121, 1, 0, 8>>, <<8122, 8123, 1, 0, 74>>,
       <<8124, 8124, 1, 0, 9>>, <<8136, 8139, 1, 0, 86>>, <<8140, 8140, 1, 0, 9>>, <<8152, 8153, 1, 0, 8>>,
       <<8154, 8155, 1, 0, 100>>, <<8168, 8169, 1, 0, 8>>, <<8170, 8171, 1, 0, 112>>, <<8172, 8172, 1, 0, 7>>,
       <<8184, 8185, 1, 0, 128>>, <<8186, 8187, 1, 0, 126>>, <<8188, 8188, 1, 0, 9>>, <<8486, 8486, 1, 0, 7517>>,
       <<8490, 8490, 1, 0, 8383>>, <<8491, 8491, 1, 0, 8262>>, <<8498, 8498, 1, 28, 0>>, <<8544, 8559, 1, 16, 0>>,
       <<8579, 8579, 1, 1, 0>>, <<9398, 9423, 1, 26, 0>>, <<11264, 11311, 1, 48, 0>>, <<11360, 11360, 1, 1, 0>>,
       <<11362, 11362, 1, 0, 10743>>, <<11363, 11363, 1, 0, 3814>>, <<11364, 11364, 1, 0, 10727>>, <<11367, 11371, 2, 1, 0>>,
       <<11373, 11373, 1, 0, 10780>>, <<11374, 11374, 1, 0, 10749>>, <<11375, 11375, 1, 0, 10783>>, <<11376, 11376, 1, 0, 10782>>,
       <<11378, 11378, 1, 1, 0>>, <<11381, 11381, 1, 1, 0>>, <<11390, 11391, 1, 0, 10815>>, <<11392, 11490, 2, 1, 0>>,
       <<11499, 11501, 2, 1, 0>>, <<11506, 11506, 1, 1, 0>>, <<42560, 42604, 2, 1, 0>>, <<42624, 42650, 2, 1, 0>>,
       <<42786, 42798, 2, 1, 0>>, <<42802, 42862, 2, 1, 0>>, <<42873, 42875, 2, 1, 0>>, <<42877, 42877, 1, 0, 35332>>,
       <<42878, 42886, 2, 1, 0>>, <<42891, 42891, 1, 1, 0>>, <<42893, 42893, 1, 0, 42280>>, <<42896, 42898, 2, 1, 0>>,
       <<42902, 42920, 2, 1, 0>>, <<42922, 42922, 1, 0, 42308>>, <<42923, 42923, 1, 0, 42319>>, <<42924, 42924, 1, 0, 42315>>,
       <<42925, 42925, 1, 0, 42305>>, <<42926, 42926, 1, 0, 42308>>, <<42928, 42928, 1, 0, 42258>>, <<42929, 42929, 1, 0, 42282>>,
       <<42930, 42930, 1, 0, 42261>>, <<42931, 42931, 1, 928, 0>>, <<42932, 42946, 2, 1, 0>>, <<42948, 42948, 1, 0, 48>>,
       <<42949, 42949, 1, 0, 42307>>, <<42950, 42950, 1, 0, 35384>>, <<42951, 42953, 2, 1, 0>>, <<42960, 42960, 1, 1, 0>>,
       <<42966, 42968, 2, 1, 0>>, <<42997, 42997, 1, 1, 0>>, <<65313, 65338, 1, 32, 0>>, <<66560, 66599, 1, 40, 0>>,
       <<66736, 66771, 1, 40, 0>>, <<66928, 66938, 1, 39, 0>>, <<66940, 66954, 1, 39, 0>>, <<66956, 66962, 1, 39, 0>>,
       <<66964, 66965, 1, 39, 0>>, <<68736, 68786, 1, 64, 0>>, <<71840, 71871, 1, 32, 0>>, <<93760, 93791, 1, 32, 0>>,
       <<125184, 125217, 1, 34, 0>> >>

(* lowercase mappings to more than one code point *)
LowerSpecial == << <<304, <<105, 775>>>> >>

Whitespace == CodePoints(SpaceRanges)
Digits == CodePoints(DecimalRanges)
WordChars == CodePoints(AlnumRanges) \cup {95}
IdentChars == WordChars \cup {46}
CasedChars == CodePoints(CasedRanges)
CaseIgnorableChars == CodePoints(CaseIgnorableRanges)

-----------------------------------------------------------------------------
(* str.strip() *)

RECURSIVE lstrip(_)
lstrip(s) ==
    IF s = <<>> THEN <<>>
    ELSE IF Head(s) \in Whitespace THEN lstrip(Tail(s)) ELSE s

RECURSIVE rstrip(_)
rstrip(s) ==
    IF s = <<>> THEN <<>>
    ELSE IF s[Len(s)] \in Whitespace THEN rstrip(SubSeq(s, 1, Len(s) - 1)) ELSE s

strip(s) == rstrip(lstrip(s))

-----------------------------------------------------------------------------
(* run(cmd, capture, check): result is what the subprocess produced,       *)
(* [rc |-> exit code, stdout |-> captured text].                           *)

run_check_ignored(capture, check, result) ==
    IF capture
    THEN IF result.rc # 0 THEN None ELSE Str(strip(result.stdout))
    ELSE IF result.rc # 0 THEN Raised ELSE None

run_never_raises(capture, check, result) ==
    IF capture
    THEN IF check /\ result.rc # 0 THEN None ELSE Str(strip(result.stdout))
    ELSE None

run(capture, check, result) ==
    IF capture
    THEN IF check /\ result.rc # 0 THEN None ELSE Str(strip(result.stdout))
    ELSE IF check /\ result.rc # 0 THEN Raised ELSE None

-----------------------------------------------------------------------------
(* _ensure_path *)

Sep == ":"
Home == "/home/dev"

priority == <<"/opt/homebrew/bin", "/opt/homebrew/sbin">>
extra == <<"/usr/local/bin", Home \o "/.npm-global/bin">>

Range(s) == {s[i] : i \in 1..Len(s)}

(* current.split(os.pathsep): the pieces between separators, concatenated *)
RECURSIVE split_from(_, _, _)
split_from(pieces, done, cur) ==
    IF pieces = <<>> THEN Append(done, cur)
    ELSE IF Head(pieces) = Sep
         THEN split_from(Tail(pieces), Append(done, cur), "")
         ELSE split_from(Tail(pieces), done, cur \o Head(pieces))

split(pieces) == split_from(pieces, <<>>, "")

(* os.pathsep.join(entries) *)
RECURSIVE join(_)
join(entries) ==
    IF entries = <<>> THEN <<>>
    ELSE LET first == IF Head(entries) = "" THEN <<>> ELSE <<Head(entries)>>
         IN  IF Len(entries) = 1 THEN first
             ELSE first \o <<Sep>> \o join(Tail(entries))

RECURSIVE append_missing(_, _)
append_missing(parts, more) ==
    IF more = <<>> THEN parts
    ELSE IF Head(more) \in Range(parts)
         THEN append_missing(parts, Tail(more))
         ELSE append_missing(Append(parts, Head(more)), Tail(more))

ensure_path_keeps_position(current) ==
    LET parts == split(current)
    IN  join(priority \o append_missing(parts, extra))

ensure_path_always_appends(current) ==
    LET parts == SelectSeq(split(current), LAMBDA p : p \notin Range(priority))
    IN  join(priority \o parts \o extra)

ensure_path(current) ==
    LET parts == SelectSeq(split(current), LAMBDA p : p \notin Range(priority))
    IN  join(priority \o append_missing(parts, extra))

-----------------------------------------------------------------------------
(* The identifier extractor of read_bundle_ids:                            *)
(*   re.search(r"applicationIdentifier:.*?<key>:\s*([\w.]+)", content,     *)
(*             re.DOTALL)                                                  *)

Marker == <<97, 112, 112, 108, 105, 99, 97, 116, 105, 111, 110, 73, 100, 101, 110, 116, 105, 102, 105, 101, 114, 58>>
IPhoneKey == <<105, 80, 104, 111, 110, 101, 58>>
AndroidKey == <<65, 110, 100, 114, 111, 105, 100, 58>>

MatchesAt(lit, s, i) ==
    /\ i + Len(lit) - 1 <= Len(s)
    /\ SubSeq(s, i, i + Len(lit) - 1) = lit

(* \s* taken greedily from position i: the first position not whitespace *)
RECURSIVE SkipSpace(_, _)
SkipSpace(s, i) ==
    IF i <= Len(s) /\ s[i] \in Whitespace THEN SkipSpace(s, i + 1) ELSE i

(* [\w.]+ taken greedily from position i: the last position of the run *)
RECURSIVE IdentEnd(_, _)
IdentEnd(s, i) ==
    IF i + 1 <= Len(s) /\ s[i + 1] \in IdentChars THEN IdentEnd(s, i + 1) ELSE i

(* <key>:\s*([\w.]+) matches at position j *)
KeyValueAt(key, s, j) ==
    /\ MatchesAt(key, s, j)
    /\ LET k == SkipSpace(s, j + Len(key))
       IN  k <= Len(s) /\ s[k] \in IdentChars

KeyPositionsAfter(key, s, i) ==
    {j \in (i + Len(Marker))..Len(s) : KeyValueAt(key, s, j)}

MatchStarts(key, s) ==
    {i \in 1..Len(s) : MatchesAt(Marker, s, i) /\ KeyPositionsAfter(key, s, i) # {}}

Least(S) == CHOOSE n \in S : \A m \in S : n <= m

search_any_key(key, s) ==
    LET starts == {i \in 1..Len(s) : MatchesAt(Marker, s, i)
                       /\ \E j \in (i + Len(Marker))..Len(s) : MatchesAt(key, s, j)}
    IN  IF starts = {} THEN None
        ELSE LET i == Least(starts)
                 j == Least({n \in (i + Len(Marker))..Len(s) : MatchesAt(key, s, n)})
                 k == SkipSpace(s, j + Len(key))
             IN  IF k <= Len(s) /\ s[k] \in IdentChars
                 THEN Str(strip(SubSeq(s, k, IdentEnd(s, k))))
                 ELSE None

search_without_marker(key, s) ==
    LET found == {j \in 1..Len(s) : KeyValueAt(key, s, j)}
    IN  IF found = {} THEN None
        ELSE LET j == Least(found)
                 k == SkipSpace(s, j + Len(key))
             IN  Str(strip(SubSeq(s, k, IdentEnd(s, k))))

(* m.group(1).strip() of the leftmost match, None without a match *)
search(key, s) ==
    LET starts == MatchStarts(key, s)
    IN  IF starts = {} THEN None
        ELSE LET i == Least(starts)
                 j == Least(KeyPositionsAfter(key, s, i))
                 k == SkipSpace(s, j + Len(key))
             IN  Str(strip(SubSeq(s, k, IdentEnd(s, k))))

extract_ids(content) ==
    [ios |-> search(IPhoneKey, content), android |-> search(AndroidKey, content)]

(* `if x:` on an optional string *)
Truthy_unless_pending(x) == x.tag \in {"str", "None"}

Truthy(x) == x.tag = "str" /\ x.val # <<>>

-----------------------------------------------------------------------------
(* Values of the variables a specification does not use *)

Pending == [tag |-> "pending", val |-> <<>>]

MainIdle ==
    /\ pc = "idle" /\ argv = <<>> /\ tools = {} /\ PATH = <<>>
    /\ fs = <<>> /\ invoked = <<>> /\ written = <<>> /\ printed = <<>>
    /\ ios_bundle_id = None /\ android_bundle_id = None
    /\ exit_status = NoExit
PathIdle == path_calls = <<>> /\ path_start = <<>>
RunIdle ==
    /\ run_in = [capture |-> FALSE, check |-> FALSE, rc |-> 0, stdout |-> <<>>]
    /\ run_out = Pending
ExtractIdle == document = <<>> /\ extracted = Pending

-----------------------------------------------------------------------------
(* The command runner on its own: every argument combination and result *)

ExitCodes == {0, 1, 2}
OutChars == {97, 32, 10, 160}

InitRun ==
    /\ run_in \in [capture : BOOLEAN, check : BOOLEAN, rc : ExitCodes,
                   stdout : SeqsUpTo(OutChars, MaxOutLen)]
    /\ run_out = Pending
    /\ MainIdle /\ PathIdle /\ ExtractIdle

CallRun ==
    /\ run_out = Pending
    /\ run_out' = run(run_in.capture, run_in.check, [rc |-> run_in.rc, stdout |-> run_in.stdout])
    /\ UNCHANGED <<run_in, main_vars, path_vars, extract_vars>>

NextRun == CallRun

SpecRun == InitRun /\ [][NextRun]_vars

-----------------------------------------------------------------------------
(* The environment preparer on its own: any starting PATH, repeated calls *)

PathPieces == {Sep, priority[1], priority[2], extra[1], extra[2], "/usr/bin"}

InitPath ==
    /\ path_start \in SeqsUpTo(PathPieces, MaxPathLen)
    /\ path_calls = <<>>
    /\ MainIdle /\ RunIdle /\ ExtractIdle

CallEnsurePath ==
    /\ Len(path_calls) < MaxCalls
    /\ LET current == IF path_calls = <<>> THEN path_start
                      ELSE path_calls[Len(path_calls)]
       IN  path_calls' = Append(path_calls, ensure_path(current))
    /\ UNCHANGED <<path_start, main_vars, run_vars, extract_vars>>

NextPath == CallEnsurePath

SpecPath == InitPath /\ [][NextPath]_vars

-----------------------------------------------------------------------------
(* The identifier extractor on its own: documents built from pieces *)

RECURSIVE Flatten(_)
Flatten(ps) == IF ps = <<>> THEN <<>> ELSE Head(ps) \o Flatten(Tail(ps))

DocPieces == {Marker, IPhoneKey, AndroidKey, <<10, 32>>, <<160>>,
              <<99, 46, 120, 10>>, <<233>>, <<45>>}

Documents == {Flatten(ps) : ps \in SeqsUpTo(DocPieces, MaxDocPieces)}

InitExtract ==
    /\ document \in Documents
    /\ extracted = Pending
    /\ MainIdle /\ PathIdle /\ RunIdle

CallExtract ==
    /\ extracted = Pending
    /\ extracted' = extract_ids(document)
    /\ UNCHANGED <<document, main_vars, path_vars, run_vars>>

NextExtract == CallExtract

SpecExtract == InitExtract /\ [][NextExtract]_vars

-----------------------------------------------------------------------------
(* Properties of the environment preparer *)

Count(x, s) == Cardinality({i \in 1..Len(s) : s[i] = x})

KeptEntries(entries) == SelectSeq(entries, LAMBDA p : p \notin Range(priority))
MissingExtras(entries) == SelectSeq(extra, LAMBDA p : p \notin Range(entries))

(* C5: _ensure_path is idempotent: every call after the first leaves PATH  *)
(* as the first call left it, each priority directory occurs exactly once  *)
(* and each extra directory absent at the start occurs exactly once.       *)
C5_EnsurePathIdempotent ==
    \A n \in 1..Len(path_calls) :
        /\ path_calls[n] = path_calls[1]
        /\ \A i \in 1..Len(priority) : Count(priority[i], split(path_calls[n])) = 1
        /\ \A i \in 1..Len(extra) :
              extra[i] \notin Range(split(path_start))
                  => Count(extra[i], split(path_calls[n])) = 1

C5_Witness ==
    /\ Len(path_calls) >= 2
    /\ path_start = <<"/usr/bin", Sep, priority[1], Sep, "/usr/bin">>

(* C6: the PATH produced by _ensure_path is the priority directories in    *)
(* declared order, then the original entries without the priority          *)
(* directories, then the extra directories that were not already present.  *)
C6_RebuildRule ==
    Len(path_calls) >= 1 =>
        LET original == split(path_start)
            produced == split(path_calls[1])
        IN  /\ produced = priority \o KeptEntries(original) \o MissingExtras(original)
            /\ SubSeq(produced, 1, Len(priority)) = priority

C6_Witness ==
    /\ Len(path_calls) >= 1
    /\ path_start = <<extra[1], Sep, priority[2], Sep, priority[1]>>
    /\ split(path_calls[1]) = <<priority[1], priority[2], extra[1], extra[2]>>

-----------------------------------------------------------------------------
(* Properties of the command runner *)

(* t is s without its leading and trailing whitespace *)
IsTrimOf(t, s) ==
    \E a \in 0..Len(s) : \E b \in 0..(Len(s) - a) :
        /\ \A i \in 1..a : s[i] \in Whitespace
        /\ \A i \in (Len(s) - b + 1)..Len(s) : s[i] \in Whitespace
        /\ t = SubSeq(s, a + 1, Len(s) - b)
        /\ t # <<>> => t[1] \notin Whitespace /\ t[Len(t)] \notin Whitespace

(* C7: with capture, run returns the trimmed output on exit zero and when  *)
(* check is false, and None exactly when check is true and the exit is     *)
(* non-zero; without capture it returns nothing, and raises exactly when   *)
(* check is true and the command fails.                                    *)
C7_RunOutcomes ==
    run_out # Pending =>
        /\ run_in.capture /\ (run_in.rc = 0 \/ ~run_in.check)
              => run_out.tag = "str" /\ IsTrimOf(run_out.val, run_in.stdout)
        /\ run_in.capture => (run_out = None <=> (run_in.check /\ run_in.rc # 0))
        /\ ~run_in.capture => (run_out = Raised <=> (run_in.check /\ run_in.rc # 0))
        /\ ~run_in.capture /\ run_out # Raised => run_out = None

C7_Witness ==
    /\ run_out = Str(<<97>>)
    /\ run_in.capture /\ ~run_in.check /\ run_in.rc # 0
    /\ run_in.stdout = <<160, 97, 10>>

-----------------------------------------------------------------------------
(* Properties of the identifier extractor *)

MarkerPositions(s) == {i \in 1..Len(s) : MatchesAt(Marker, s, i)}

KeyAfterMarker(key, s) ==
    \E i \in MarkerPositions(s) : \E j \in (i + Len(Marker))..Len(s) : MatchesAt(key, s, j)

(* the key at j is followed by whitespace up to k and by the value k..e *)
ValueFollows(key, s, j, k, e) ==
    /\ MatchesAt(key, s, j)
    /\ k >= j + Len(key) /\ k <= e /\ e <= Len(s)
    /\ \A n \in (j + Len(key))..(k - 1) : s[n] \in Whitespace
    /\ \A n \in k..e : s[n] \in IdentChars
    /\ e < Len(s) => s[e + 1] \notin IdentChars

HasValue(key, s, j) ==
    /\ MatchesAt(key, s, j)
    /\ \E k \in j..Len(s) : \E e \in k..Len(s) : ValueFollows(key, s, j, k, e)

ValuedKeyAfterMarker(key, s) ==
    \E i \in MarkerPositions(s) : \E j \in (i + Len(Marker))..Len(s) : HasValue(key, s, j)

(* v is the value of the first occurrence of the key, after the marker,    *)
(* that has a value                                                        *)
IsFirstValue(key, s, v) ==
    \E i \in MarkerPositions(s) : \E j \in (i + Len(Marker))..Len(s) :
        /\ HasValue(key, s, j)
        /\ \A n \in (i + Len(Marker))..(j - 1) : ~HasValue(key, s, n)
        /\ \E k \in j..Len(s) : \E e \in k..Len(s) :
              ValueFollows(key, s, j, k, e) /\ v = SubSeq(s, k, e)

(* C8 as stated: a document with both platform keys after a single marker  *)
(* yields both identifiers; a document without the marker yields neither.  *)
C8_BothKeysGiveBothIds ==
    extracted # Pending =>
        /\ ( /\ Cardinality(MarkerPositions(document)) = 1
             /\ KeyAfterMarker(IPhoneKey, document)
             /\ KeyAfterMarker(AndroidKey, document) )
              => extracted.ios.tag = "str" /\ extracted.android.tag = "str"
        /\ MarkerPositions(document) = {}
              => extracted.ios = None /\ extracted.android = None

(* C8 amended: a document in which, after a single marker, each platform   *)
(* key occurs followed by optional whitespace and at least one word        *)
(* character or dot yields both identifiers, each the run of word          *)
(* characters and dots after the first such occurrence of its key; a       *)
(* document without the marker yields neither; no error is raised.         *)
C8_ValuedKeysGiveBothIds ==
    extracted # Pending =>
        /\ ( /\ Cardinality(MarkerPositions(document)) = 1
             /\ ValuedKeyAfterMarker(IPhoneKey, document)
             /\ ValuedKeyAfterMarker(AndroidKey, document) )
              => /\ extracted.ios.tag = "str"
                 /\ IsFirstValue(IPhoneKey, document, extracted.ios.val)
                 /\ extracted.android.tag = "str"
                 /\ IsFirstValue(AndroidKey, document, extracted.android.val)
        /\ MarkerPositions(document) = {}
              => extracted.ios = None /\ extracted.android = None
        /\ extracted.ios.tag \in {"None", "str"}
        /\ extracted.android.tag \in {"None", "str"}

C8_Witness ==
    /\ document = Marker \o IPhoneKey \o <<99, 46, 120, 10>> \o AndroidKey \o <<233>>
    /\ extracted = [ios |-> Str(<<99, 46, 120>>), android |-> Str(<<233>>)]

C8_WitnessNoMarker ==
    /\ document = IPhoneKey \o <<99, 46, 120, 10>> \o AndroidKey \o <<233>>
    /\ extracted = [ios |-> None, android |-> None]

-----------------------------------------------------------------------------
(* check_node_version: re.match(r"v(\d+)", version_str) and int()          *)

(* int() of one decimal digit *)
DigitValue(c) ==
    LET i == CHOOSE n \in 1..Len(DecimalRanges) :
                 DecimalRanges[n][1] <= c /\ c <= DecimalRanges[n][2]
    IN  (c - DecimalRanges[i][1]) % 10

(* (\d+) at the start of s: the digits before the first other character *)
LeadingDigits(s) ==
    LET others_at == {i \in 1..Len(s) : s[i] \notin Digits}
        first == CHOOSE i \in others_at : \A j \in others_at : i <= j
    IN  IF others_at = {} THEN s ELSE SubSeq(s, 1, first - 1)

RECURSIVE ToInt(_, _)
ToInt(ds, acc) ==
    IF ds = <<>> THEN acc ELSE ToInt(Tail(ds), 10 * acc + DigitValue(Head(ds)))

MinNodeMajor == 20

(* int() refuses a text of more than sys.get_int_max_str_digits() digits *)
MaxStrDigits == 4300
int_raises(ds) == Len(ds) > MaxStrDigits

(* TRUE when check_node_version ends in the ValueError of int() *)
node_version_raises(version_str) ==
    /\ version_str # <<>>
    /\ Head(version_str) = 118
    /\ int_raises(LeadingDigits(Tail(version_str)))

(* TRUE when check_node_version returns early on this version string *)
node_version_ok_first_digit(version_str) ==
    \/ version_str = <<>>
    \/ Head(version_str) # 118
    \/ LeadingDigits(Tail(version_str)) = <<>>
    \/ /\ ~int_raises(LeadingDigits(Tail(version_str)))
       /\ DigitValue(Head(Tail(version_str))) >= 2

node_version_ok(version_str) ==
    \/ version_str = <<>>
    \/ Head(version_str) # 118
    \/ LeadingDigits(Tail(version_str)) = <<>>
    \/ /\ ~int_raises(LeadingDigits(Tail(version_str)))
       /\ ToInt(LeadingDigits(Tail(version_str)), 0) >= MinNodeMajor

-----------------------------------------------------------------------------
(* main: project_id = "hcg-" + game_name.lower().replace(" ", "-")         *)

CapitalSigma == 931

(* the lowercase of one character other than capital sigma *)
lower_char(c) ==
    IF \E i \in 1..Len(LowerSpecial) : LowerSpecial[i][1] = c
    THEN LowerSpecial[CHOOSE i \in 1..Len(LowerSpecial) : LowerSpecial[i][1] = c][2]
    ELSE IF \E i \in 1..Len(LowerRuns) :
               /\ LowerRuns[i][1] <= c /\ c <= LowerRuns[i][2]
               /\ (c - LowerRuns[i][1]) % LowerRuns[i][3] = 0
    THEN LET r == LowerRuns[CHOOSE i \in 1..Len(LowerRuns) :
                      /\ LowerRuns[i][1] <= c /\ c <= LowerRuns[i][2]
                      /\ (c - LowerRuns[i][1]) % LowerRuns[i][3] = 0]
         IN  <<(c + r[4]) - r[5]>>
    ELSE <<c>>

(* the nearest character before i, resp. after i, that is not case-ignorable *)
RECURSIVE BackOver(_, _)
BackOver(s, j) ==
    IF j >= 1 /\ s[j] \in CaseIgnorableChars THEN BackOver(s, j - 1) ELSE j

RECURSIVE ForwardOver(_, _)
ForwardOver(s, j) ==
    IF j <= Len(s) /\ s[j] \in CaseIgnorableChars THEN ForwardOver(s, j + 1) ELSE j

(* a capital sigma at i becomes the final sigma after a cased letter and   *)
(* not before one                                                          *)
lower_sigma(s, i) ==
    LET b == BackOver(s, i - 1)
        f == ForwardOver(s, i + 1)
    IN  IF /\ b >= 1 /\ s[b] \in CasedChars
           /\ (f > Len(s) \/ s[f] \notin CasedChars)
        THEN 962 ELSE 963

(* str.lower() *)
RECURSIVE lower_from(_, _)
lower_from(s, i) ==
    IF i > Len(s) THEN <<>>
    ELSE (IF s[i] = CapitalSigma THEN <<lower_sigma(s, i)>> ELSE lower_char(s[i]))
             \o lower_from(s, i + 1)

lower(s) == lower_from(s, 1)

(* str.replace(" ", "-") *)
replace_spaces(s) == [i \in 1..Len(s) |-> IF s[i] = 32 THEN 45 ELSE s[i]]

project_id(name) == <<104, 99, 103, 45>> \o replace_spaces(lower(name))

-----------------------------------------------------------------------------
(* Files: the project tree maps a path to a directory or to a file's      *)
(* content; every proper prefix of a path of the tree is a directory       *)

SettingsPath == <<"ProjectSettings", "ProjectSettings.asset">>
SettingsDir == <<"Assets", "Settings">>
IosConfigPath == SettingsDir \o <<"GoogleService-Info.plist">>
AndroidConfigPath == SettingsDir \o <<"google-services.json">>
LockPath == <<"Gemfile.lock">>
OtherPath == <<"README.md">>

Content(kind, text) == [kind |-> kind, text |-> text]
Directory == Content("dir", <<>>)

IsDir(files, path) == path \in DOMAIN files /\ files[path] = Directory
IsFile(files, path) == path \in DOMAIN files /\ files[path] # Directory

parent(path) == SubSeq(path, 1, Len(path) - 1)
Prefixes(path) == {SubSeq(path, 1, n) : n \in 1..Len(path)}

Done(files) == [ok |-> TRUE, files |-> files]
Raises(files) == [ok |-> FALSE, files |-> files]

(* Path.mkdir(parents=True, exist_ok=True): raises when the path or one of *)
(* its ancestors is a regular file, else creates what is missing           *)
mkdir(files, path) ==
    IF \E p \in Prefixes(path) : IsFile(files, p)
    THEN Raises(files)
    ELSE Done([q \in DOMAIN files \cup Prefixes(path) |->
                  IF q \in DOMAIN files THEN files[q] ELSE Directory])

(* path.write_text(content): open(path, "w") raises on a directory and     *)
(* without a parent directory, else creates or replaces the file           *)
write_text(files, path, content) ==
    IF IsDir(files, path) \/ (Len(path) > 1 /\ ~IsDir(files, parent(path)))
    THEN Raises(files)
    ELSE Done([q \in DOMAIN files \cup {path} |-> IF q = path THEN content ELSE files[q]])

(* write_file(path, content): ok is FALSE when it raises *)
write_file(files, path, content) ==
    LET made == mkdir(files, parent(path))
    IN  IF made.ok THEN write_text(made.files, path, content) ELSE made

(* what a command leaves of the file it is asked to produce: the file, or  *)
(* nothing (the tree as it was) when the tool does not write it or cannot  *)
tool_output(files, path, content) ==
    LET w == write_text(files, path, content)
    IN  {files} \cup (IF w.ok THEN {w.files} ELSE {})

(* the files generate_boilerplate renders, in the order it writes them *)
boilerplate(name) ==
    << [path |-> <<".github", "workflows", "build.yml">>, content |-> Content("build_yml", name)],
       [path |-> <<"fastlane", "Fastfile">>, content |-> Content("fastfile", <<>>)],
       [path |-> <<"fastlane", "Matchfile">>, content |-> Content("matchfile", <<>>)],
       [path |-> <<"Gemfile">>, content |-> Content("gemfile", <<>>)] >>

(* generate_boilerplate from item i on: the write_file calls in order, up  *)
(* to the first that raises; created lists the files written               *)
RECURSIVE write_from(_, _, _, _)
write_from(files, items, i, created) ==
    IF i > Len(items) THEN [ok |-> TRUE, files |-> files, created |-> created]
    ELSE LET w == write_file(files, items[i].path, items[i].content)
         IN  IF w.ok
             THEN write_from(w.files, items, i + 1, Append(created, items[i].path))
             ELSE [ok |-> FALSE, files |-> w.files, created |-> created]

generate_boilerplate(files, name) == write_from(files, boilerplate(name), 1, <<>>)

-----------------------------------------------------------------------------
(* The driver *)

AllTools == {"node", "brew", "npm", "firebase", "gcloud", "bundle"}

(* what shutil.which can find afterwards that it did not find before: the *)
(* commands an upgrade of node, resp. an install of the CLI, can put on    *)
(* PATH (all of them, some, or none)                                       *)
UpgradeInstalls == {"node", "npm"}

(* the tools found at the start: all, none, and what each branch of the    *)
(* prerequisite checks and of the later steps needs present or missing     *)
StartingTools ==
    {AllTools \ missing : missing \in
        { {}, {"node"}, {"brew"}, {"firebase"}, {"firebase", "node"},
          {"firebase", "npm"}, {"firebase", "npm", "brew"},
          {"gcloud"}, {"bundle"}, {"gcloud", "bundle"}, {"brew", "gcloud", "bundle"},
          AllTools \ {"firebase"}, AllTools }}
CliInstalls == {"firebase"}
CmdExitCodes == {0, 1}

GameNames == {<<77, 121, 32, 71, 97, 109, 101>>, <<304, 83, 931>>}

BothIdsDoc ==
    Marker \o <<10, 32, 32, 105, 80, 104, 111, 110, 101, 58, 32, 99, 111, 109, 46, 120, 46, 109, 121, 103, 97, 109, 101, 10, 32, 32, 65, 110, 100, 114, 111, 105, 100, 58, 32, 99, 111, 109, 46, 120, 46, 100, 114, 111, 105, 100, 10>>
NoAndroidDoc == Marker \o <<10, 32, 32, 105, 80, 104, 111, 110, 101, 58, 32, 99, 111, 109, 46, 120, 46, 109, 121, 103, 97, 109, 101, 10>>
NoMarkerDoc == <<105, 80, 104, 111, 110, 101, 58, 32, 99, 111, 109, 46, 120, 46, 109, 121, 103, 97, 109, 101, 10, 32, 32, 65, 110, 100, 114, 111, 105, 100, 58, 32, 99, 111, 109, 46, 120, 46, 100, 114, 111, 105, 100, 10>>
SettingsDocs == {BothIdsDoc, NoAndroidDoc, NoMarkerDoc}

(* what `node --version` and `firebase projects:list` can produce *)
NodeResults ==
    { [rc |-> 0, stdout |-> <<118, 57, 46, 49, 49, 46, 50, 10>>],
      [rc |-> 0, stdout |-> <<118, 50, 48, 46, 49, 49, 46, 49, 10>>],
      [rc |-> 0, stdout |-> <<118, 1634, 10>>],
      [rc |-> 0, stdout |-> <<118>> \o [i \in 1..(MaxStrDigits + 1) |-> 57] \o <<10>>],
      [rc |-> 0, stdout |-> <<110, 111, 100, 101, 10>>],
      [rc |-> 1, stdout |-> <<>>] }
ListResults ==
    { [rc |-> 0, stdout |-> <<112, 114, 111, 106, 101, 99, 116, 115, 10>>],
      [rc |-> 1, stdout |-> <<>>] }

(* project trees: empty, or with files from an earlier run *)
RECURSIVE Tree(_)
Tree(items) ==
    IF items = <<>> THEN <<>>
    ELSE write_file(Tree(SubSeq(items, 1, Len(items) - 1)),
                    items[Len(items)].path, items[Len(items)].content).files

Old(path) == [path |-> path, content |-> Content("old", <<>>)]
Settings(doc) == [path |-> SettingsPath, content |-> Content("settings", doc)]

OldFiles ==
    <<Old(OtherPath), Old(<<".github", "workflows", "build.yml">>),
      Old(<<"fastlane", "Fastfile">>), Old(<<"fastlane", "Matchfile">>), Old(<<"Gemfile">>)>>

(* trees in which a name the script needs as a directory is a regular      *)
(* file, or a name it needs as a file is a directory                       *)
ConflictingTrees ==
    { Tree(<<Settings(BothIdsDoc), Old(<<"Assets">>)>>),
      Tree(<<Settings(NoAndroidDoc), Old(<<"Assets", "Settings">>)>>),
      Tree(<<Settings(BothIdsDoc), Old(<<"fastlane">>)>>),
      mkdir(Tree(<<Settings(BothIdsDoc)>>), <<"Gemfile">>).files,
      mkdir(<<>>, SettingsPath).files }

ProjectTrees ==
    {Tree(base) : base \in {<<>>, OldFiles}}
        \cup {Tree(OldFiles \o <<Settings(doc)>>) : doc \in SettingsDocs}
        \cup {Tree(<<Settings(NoAndroidDoc)>>)}
        \cup ConflictingTrees

StartingPaths == {<<"/usr/bin", Sep, priority[1], Sep, "/bin">>}

Cmd(name, arg, rc, out) == [cmd |-> name, arg |-> arg, rc |-> rc, out |-> out]

exit(code) == pc' = "exited" /\ exit_status' = Exit(code)

(* an exception nothing catches ends the interpreter with status 1 *)
uncaught == pc' = "exited" /\ exit_status' = Exit(1)

game_name == argv[1]

Init ==
    /\ pc = "main"
    /\ argv \in {<<>>} \cup {<<g>> : g \in GameNames}
    /\ tools \in StartingTools
    /\ \E start \in StartingPaths : PATH = ensure_path(start)
    /\ fs \in ProjectTrees
    /\ invoked = <<>> /\ written = <<>> /\ printed = <<>>
    /\ ios_bundle_id = None /\ android_bundle_id = None
    /\ exit_status = NoExit
    /\ PathIdle /\ RunIdle /\ ExtractIdle

others == <<path_vars, run_vars, extract_vars>>

Main ==
    /\ pc = "main"
    /\ IF Len(argv) + 1 < 2
       THEN /\ printed' = Append(printed, "Usage: python setup.py <GameName>")
            /\ exit(1)
       ELSE /\ printed' = Append(printed, "Setting up CI/CD")
            /\ pc' = "check_node_version"
            /\ UNCHANGED exit_status
    /\ UNCHANGED <<argv, tools, PATH, fs, invoked, written,
                   ios_bundle_id, android_bundle_id, others>>

CheckNodeVersion ==
    /\ pc = "check_node_version"
    /\ IF "node" \notin tools
       THEN /\ pc' = "check_firebase_cli"
            /\ UNCHANGED <<invoked, printed, PATH, tools, exit_status>>
       ELSE \E res \in NodeResults, rc2 \in CmdExitCodes, installed \in SUBSET UpgradeInstalls :
            LET version_str == run(TRUE, FALSE, res)
                queried == Append(invoked, Cmd("node --version", <<>>, res.rc, res.stdout))
                upgrade == run(FALSE, FALSE, [rc |-> rc2, stdout |-> <<>>])
            IN  IF node_version_raises(version_str.val)
                THEN /\ invoked' = queried
                     /\ uncaught
                     /\ UNCHANGED <<printed, PATH, tools>>
                ELSE IF node_version_ok(version_str.val)
                THEN /\ invoked' = queried
                     /\ pc' = "check_firebase_cli"
                     /\ UNCHANGED <<printed, PATH, tools, exit_status>>
                ELSE IF "brew" \in tools
                THEN /\ printed' = printed \o <<"Node.js is too old", "Upgrading Node.js via Homebrew...">>
                     /\ invoked' = Append(queried,
                            Cmd("brew upgrade node || brew install node", <<>>, rc2, <<>>))
                     /\ tools' = tools \cup installed
                     /\ IF upgrade = Raised
                        THEN uncaught /\ UNCHANGED PATH
                        ELSE /\ PATH' = ensure_path(PATH)
                             /\ pc' = "check_firebase_cli"
                             /\ UNCHANGED exit_status
                ELSE /\ printed' = printed \o <<"Node.js is too old", "Error: Please upgrade Node.js to >= v20.">>
                     /\ invoked' = queried
                     /\ exit(1)
                     /\ UNCHANGED <<PATH, tools>>
    /\ UNCHANGED <<argv, fs, written, ios_bundle_id, android_bundle_id, others>>

CheckFirebaseCli ==
    /\ pc = "check_firebase_cli"
    /\ \E rc \in CmdExitCodes, system \in {"Darwin", "Linux"}, got \in SUBSET CliInstalls :
       LET install == run(FALSE, TRUE, [rc |-> rc, stdout |-> <<>>])
           installed(cmd, notice) ==
               /\ printed' = Append(printed, notice)
               /\ invoked' = Append(invoked, Cmd(cmd, <<>>, rc, <<>>))
               /\ tools' = tools \cup got
               /\ IF install = Raised
                  THEN uncaught
                  ELSE pc' = "firebase_login_check" /\ UNCHANGED exit_status
       IN  IF "firebase" \in tools
           THEN /\ pc' = "firebase_login_check"
                /\ UNCHANGED <<printed, invoked, tools, exit_status>>
           ELSE IF "npm" \in tools
           THEN installed("npm install -g firebase-tools", "Installing Firebase CLI via npm...")
           ELSE IF system = "Darwin" /\ "brew" \in tools
           THEN installed("brew install firebase-cli", "Installing Firebase CLI via Homebrew...")
           ELSE /\ printed' = Append(printed, "Error: Install Firebase CLI manually:")
                /\ exit(1)
                /\ UNCHANGED <<invoked, tools>>
    /\ UNCHANGED <<argv, PATH, fs, written, ios_bundle_id, android_bundle_id, others>>

FirebaseLoginCheck ==
    /\ pc = "firebase_login_check"
    /\ \E res \in ListResults, rc2 \in CmdExitCodes :
       LET result == run(TRUE, FALSE, res)
           login == run(FALSE, FALSE, [rc |-> rc2, stdout |-> <<>>])
           listed == Append(invoked, Cmd("firebase projects:list", <<>>, res.rc, res.stdout))
       IN  IF result = None
           THEN /\ printed' = Append(printed, "You need to log in to Firebase.")
                /\ invoked' = Append(listed, Cmd("firebase login", <<>>, rc2, <<>>))
                /\ IF login = Raised
                   THEN uncaught
                   ELSE pc' = "read_bundle_ids" /\ UNCHANGED exit_status
           ELSE /\ invoked' = listed
                /\ pc' = "read_bundle_ids"
                /\ UNCHANGED <<printed, exit_status>>
    /\ UNCHANGED <<argv, tools, PATH, fs, written, ios_bundle_id, android_bundle_id, others>>

ReadBundleIds ==
    /\ pc = "read_bundle_ids"
    /\ IF SettingsPath \notin DOMAIN fs
       THEN /\ printed' = Append(printed, "Error: settings not found")
            /\ exit(1)
            /\ UNCHANGED <<ios_bundle_id, android_bundle_id>>
       ELSE IF IsDir(fs, SettingsPath)
       THEN /\ uncaught
            /\ UNCHANGED <<printed, ios_bundle_id, android_bundle_id>>
       ELSE LET ids == extract_ids(fs[SettingsPath].text)
            IN  /\ ios_bundle_id' = ids.ios
                /\ android_bundle_id' = ids.android
                /\ printed' = printed
                       \o (IF ~Truthy(ids.ios) \/ ~Truthy(ids.android)
                           THEN <<"Warning: Could not parse all bundle IDs">> ELSE <<>>)
                       \o <<"iOS bundle ID", "Android bundle ID">>
                /\ pc' = "create_project"
                /\ UNCHANGED exit_status
    /\ UNCHANGED <<argv, tools, PATH, fs, invoked, written, others>>

(* one best-effort command of setup_firebase: run(..., check=False) *)
Attempt(name, arg, rc, next) ==
    /\ invoked' = Append(invoked, Cmd(name, arg, rc, <<>>))
    /\ IF run(FALSE, FALSE, [rc |-> rc, stdout |-> <<>>]) = Raised
       THEN uncaught
       ELSE pc' = next /\ UNCHANGED exit_status

CreateProject ==
    /\ pc = "create_project"
    /\ \E rc \in CmdExitCodes :
          Attempt("firebase projects:create", project_id(game_name), rc, "register_ios")
    /\ printed' = Append(printed, "Creating Firebase project")
    /\ UNCHANGED <<argv, tools, PATH, fs, written, ios_bundle_id, android_bundle_id, others>>

RegisterIos ==
    /\ pc = "register_ios"
    /\ IF Truthy(ios_bundle_id)
       THEN /\ \E rc \in CmdExitCodes :
                  Attempt("firebase apps:create ios", ios_bundle_id.val, rc, "register_android")
            /\ printed' = Append(printed, "Registering iOS app")
       ELSE /\ pc' = "register_android"
            /\ UNCHANGED <<invoked, printed, exit_status>>
    /\ UNCHANGED <<argv, tools, PATH, fs, written, ios_bundle_id, android_bundle_id, others>>

RegisterAndroid ==
    /\ pc = "register_android"
    /\ IF Truthy(android_bundle_id)
       THEN /\ \E rc \in CmdExitCodes :
                  Attempt("firebase apps:create android", android_bundle_id.val, rc, "make_settings_dir")
            /\ printed' = Append(printed, "Registering Android app")
       ELSE /\ pc' = "make_settings_dir"
            /\ UNCHANGED <<invoked, printed, exit_status>>
    /\ UNCHANGED <<argv, tools, PATH, fs, written, ios_bundle_id, android_bundle_id, others>>

(* settings_dir.mkdir(parents=True, exist_ok=True) *)
MakeSettingsDir ==
    /\ pc = "make_settings_dir"
    /\ LET made == mkdir(fs, SettingsDir)
       IN  /\ fs' = made.files
           /\ IF made.ok
              THEN pc' = "download_ios" /\ UNCHANGED exit_status
              ELSE uncaught
    /\ UNCHANGED <<argv, tools, PATH, invoked, written, printed,
                   ios_bundle_id, android_bundle_id, others>>

(* run(firebase apps:sdkconfig ... --out path, check=False): whatever its  *)
(* exit code, the tool has written the --out file or has not              *)
Download(name, path, kind, next) ==
    /\ \E rc \in CmdExitCodes : Attempt(name, project_id(game_name), rc, next)
    /\ fs' \in tool_output(fs, path, Content(kind, project_id(game_name)))

DownloadIos ==
    /\ pc = "download_ios"
    /\ Download("firebase apps:sdkconfig ios", IosConfigPath, "plist", "download_android")
    /\ printed' = Append(printed, "Downloading GoogleService-Info.plist...")
    /\ UNCHANGED <<argv, tools, PATH, written, ios_bundle_id, android_bundle_id, others>>

DownloadAndroid ==
    /\ pc = "download_android"
    /\ Download("firebase apps:sdkconfig android", AndroidConfigPath, "json", "add_service_account")
    /\ printed' = Append(printed, "Downloading google-services.json...")
    /\ UNCHANGED <<argv, tools, PATH, written, ios_bundle_id, android_bundle_id, others>>

AddServiceAccount ==
    /\ pc = "add_service_account"
    /\ IF "gcloud" \in tools
       THEN /\ \E rc \in CmdExitCodes :
                  Attempt("gcloud projects add-iam-policy-binding", project_id(game_name),
                          rc, "generate_boilerplate")
            /\ printed' = Append(printed, "Adding CI service account to Firebase project...")
       ELSE /\ printed' = printed \o <<"Adding CI service account to Firebase project...",
                                       "Warning: gcloud not found.">>
            /\ pc' = "generate_boilerplate"
            /\ UNCHANGED <<invoked, exit_status>>
    /\ UNCHANGED <<argv, tools, PATH, fs, written, ios_bundle_id, android_bundle_id, others>>

GenerateBoilerplate ==
    /\ pc = "generate_boilerplate"
    /\ LET generated == generate_boilerplate(fs, game_name)
       IN  /\ fs' = generated.files
           /\ written' = written \o generated.created
           /\ printed' = printed \o <<"Generating CI/CD files...">>
                             \o [i \in 1..Len(generated.created) |-> "Created"]
           /\ IF generated.ok
              THEN pc' = "generate_gemfile_lock" /\ UNCHANGED exit_status
              ELSE uncaught
    /\ UNCHANGED <<argv, tools, PATH, invoked, ios_bundle_id, android_bundle_id, others>>

GenerateGemfileLock ==
    /\ pc = "generate_gemfile_lock"
    /\ IF "bundle" \in tools
       THEN /\ \E rc \in CmdExitCodes : Attempt("bundle lock", <<>>, rc, "summary")
            /\ fs' \in tool_output(fs, LockPath, Content("lock", <<>>))
            /\ printed' = Append(printed, "Generating Gemfile.lock...")
       ELSE /\ printed' = Append(printed, "Warning: bundler not found.")
            /\ pc' = "summary"
            /\ UNCHANGED <<invoked, fs, exit_status>>
    /\ UNCHANGED <<argv, tools, PATH, written, ios_bundle_id, android_bundle_id, others>>

Summary ==
    /\ pc = "summary"
    /\ printed' = Append(printed, "Done! Files created:")
    /\ exit(0)
    /\ UNCHANGED <<argv, tools, PATH, fs, invoked, written,
                   ios_bundle_id, android_bundle_id, others>>

Next ==
    \/ Main
    \/ CheckNodeVersion
    \/ CheckFirebaseCli
    \/ FirebaseLoginCheck
    \/ ReadBundleIds
    \/ CreateProject
    \/ RegisterIos
    \/ RegisterAndroid
    \/ MakeSettingsDir
    \/ DownloadIos
    \/ DownloadAndroid
    \/ AddServiceAccount
    \/ GenerateBoilerplate
    \/ GenerateGemfileLock
    \/ Summary

Spec == Init /\ [][Next]_vars

TypeOK ==
    /\ pc \in {"main", "check_node_version", "check_firebase_cli", "firebase_login_check",
               "read_bundle_ids", "create_project", "register_ios", "register_android",
               "make_settings_dir",
               "download_ios", "download_android", "add_service_account",
               "generate_boilerplate", "generate_gemfile_lock", "summary", "exited"}
    /\ tools \subseteq AllTools
    /\ exit_status \in {NoExit, Exit(0), Exit(1)}

-----------------------------------------------------------------------------
(* Properties of the driver *)

CreateCmd == "firebase projects:create"
RegisterIosCmd == "firebase apps:create ios"
RegisterAndroidCmd == "firebase apps:create android"
DownloadIosCmd == "firebase apps:sdkconfig ios"
DownloadAndroidCmd == "firebase apps:sdkconfig android"
IamCmd == "gcloud projects add-iam-policy-binding"
ProvisioningCmds == {CreateCmd, RegisterIosCmd, RegisterAndroidCmd,
                     DownloadIosCmd, DownloadAndroidCmd, IamCmd}
InstallCmds == {"npm install -g firebase-tools", "brew install firebase-cli"}
UpgradeCmd == "brew upgrade node || brew install node"
ListCmd == "firebase projects:list"
LoginCmd == "firebase login"
SummaryLine == "Done! Files created:"
GeneratingLine == "Generating CI/CD files..."
FourFiles == <<<<".github", "workflows", "build.yml">>, <<"fastlane", "Fastfile">>,
               <<"fastlane", "Matchfile">>, <<"Gemfile">>>>

Names(log) == [i \in 1..Len(log) |-> log[i].cmd]
Provisioned == SelectSeq(invoked, LAMBDA c : c.cmd \in ProvisioningCmds)
Times(name) == Cardinality({i \in 1..Len(invoked) : invoked[i].cmd = name})
Failed(name) == \E i \in 1..Len(invoked) : invoked[i].cmd = name /\ invoked[i].rc # 0
IsPrefix(a, b) == Len(a) <= Len(b) /\ SubSeq(b, 1, Len(a)) = a

IosPresent == ios_bundle_id.tag = "str" /\ ios_bundle_id.val # <<>>
AndroidPresent == android_bundle_id.tag = "str" /\ android_bundle_id.val # <<>>

(* setup_firebase has returned to main *)
SetupReturned ==
    \/ pc \in {"generate_boilerplate", "generate_gemfile_lock", "summary"}
    \/ pc = "exited" /\ GeneratingLine \in Range(printed)

ReachedProvisioning == pc = "exited" /\ Times(CreateCmd) > 0

(* a component of Assets/Settings is a regular file *)
SettingsDirBlocked == \E p \in Prefixes(SettingsDir) : IsFile(fs, p)

(* the commands setup_firebase invokes when every command succeeds *)
AllSucceedSequence ==
    <<CreateCmd>>
        \o (IF IosPresent THEN <<RegisterIosCmd>> ELSE <<>>)
        \o (IF AndroidPresent THEN <<RegisterAndroidCmd>> ELSE <<>>)
        \o <<DownloadIosCmd, DownloadAndroidCmd>>
        \o (IF "gcloud" \in tools THEN <<IamCmd>> ELSE <<>>)

(* C1: whatever the exit codes of the provisioning commands, every run    *)
(* that reaches provisioning invokes the commands it invokes when all      *)
(* succeed, goes on to the boilerplate and the summary and ends with exit  *)
(* status 0.  The OSError of settings_dir.mkdir and of write_file, which   *)
(* nothing catches, ends such a run with exit status 1.                    *)
C1_RunEndsWithSummary ==
    /\ IsPrefix(Names(Provisioned), AllSucceedSequence)
    /\ ReachedProvisioning
          => /\ Names(Provisioned) = AllSucceedSequence
             /\ exit_status = Exit(0)
             /\ written = FourFiles
             /\ printed[Len(printed)] = SummaryLine

NewlyFailed(cmds) ==
    \E i \in (Len(invoked) + 1)..Len(invoked') :
        invoked'[i].cmd \in cmds /\ invoked'[i].rc # 0

(* C2 as stated: no failing install, upgrade, login or provisioning         *)
(* command, and no missing gcloud or bundler, stops the run.                *)
C2_NoAdvisoryFailureStops ==
    [][ /\ NewlyFailed(InstallCmds \cup {UpgradeCmd, ListCmd, LoginCmd} \cup ProvisioningCmds)
              => pc' # "exited"
        /\ pc = "add_service_account" /\ "gcloud" \notin tools => pc' = "generate_boilerplate"
        /\ pc = "generate_gemfile_lock" /\ "bundle" \notin tools => pc' = "summary"
      ]_vars

(* C2 amended: a failing Node.js upgrade, login check, login or             *)
(* provisioning command, a missing gcloud and a missing bundler do not stop *)
(* the run, which goes on to the next phase; a failing Firebase CLI install *)
(* command (npm or Homebrew) does stop it, with exit status 1, before the   *)
(* login check.                                                             *)
C2_AdvisoryContinues ==
    [][ /\ NewlyFailed({UpgradeCmd, ListCmd, LoginCmd} \cup ProvisioningCmds)
              => pc' # "exited" /\ exit_status' = NoExit
        /\ NewlyFailed(InstallCmds)
              => /\ pc' = "exited" /\ exit_status' = Exit(1)
                 /\ Times(ListCmd) = 0 /\ written' = <<>>
        /\ pc = "add_service_account" /\ "gcloud" \notin tools => pc' = "generate_boilerplate"
        /\ pc = "generate_gemfile_lock" /\ "bundle" \notin tools => pc' = "summary"
      ]_vars

C2_Witness ==
    /\ pc = "exited" /\ exit_status = Exit(0)
    /\ printed[Len(printed)] = SummaryLine
    /\ Failed(UpgradeCmd) /\ Failed(ListCmd) /\ Failed(CreateCmd)
    /\ Failed(RegisterIosCmd) /\ Failed(DownloadIosCmd) /\ Failed(DownloadAndroidCmd)
    /\ "gcloud" \notin tools /\ "bundle" \notin tools

C2_WitnessInstallFailure ==
    /\ pc = "exited" /\ exit_status = Exit(1)
    /\ Failed("npm install -g firebase-tools")

OldNodeOutputs == {<<118, 57, 46, 49, 49, 46, 50, 10>>, <<118, 1634, 10>>}

NodeTooOldNoBrew ==
    /\ "brew" \notin tools
    /\ \E i \in 1..Len(invoked) :
          invoked[i].cmd = "node --version" /\ invoked[i].out \in OldNodeOutputs

(* C3: with the argument missing, the settings document missing, or a      *)
(* Node.js major version below 20 and no brew, the run ends with exit       *)
(* status 1, no provisioning command is invoked, no boilerplate file is     *)
(* written and no summary is printed.                                       *)
C3_FatalStopsBeforeSideEffects ==
    /\ (argv = <<>> \/ SettingsPath \notin DOMAIN fs \/ NodeTooOldNoBrew)
          => /\ Provisioned = <<>>
             /\ written = <<>>
             /\ SummaryLine \notin Range(printed)
             /\ exit_status \in {NoExit, Exit(1)}
             /\ pc \in {"main", "check_node_version", "check_firebase_cli",
                        "firebase_login_check", "read_bundle_ids", "exited"}
    /\ argv = <<>> => pc \in {"main", "exited"}
    /\ NodeTooOldNoBrew => pc = "exited" /\ exit_status = Exit(1)

C3_Witness ==
    /\ pc = "exited" /\ exit_status = Exit(1)
    /\ argv # <<>> /\ SettingsPath \notin DOMAIN fs
    /\ Times(ListCmd) = 1

C3_WitnessNode == NodeTooOldNoBrew /\ pc = "exited" /\ argv # <<>>

(* C4 as stated: with the Android identifier absent and the iOS identifier *)
(* present, neither the Android registration nor the Android config        *)
(* download is attempted, and both iOS steps are.                           *)
C4_AndroidStepsSkipped ==
    SetupReturned /\ android_bundle_id = None /\ IosPresent
        => /\ Times(RegisterAndroidCmd) = 0
           /\ Times(DownloadAndroidCmd) = 0
           /\ Times(RegisterIosCmd) = 1
           /\ Times(DownloadIosCmd) = 1

(* C4 amended: with the Android identifier absent and the iOS identifier   *)
(* present, the Android registration is skipped and the iOS registration   *)
(* is attempted; the iOS and the Android config download are then both      *)
(* attempted, unless Assets/Settings cannot be created, in which case the   *)
(* run ends with exit status 1 before either download.                      *)
C4_AndroidRegistrationSkipped ==
    /\ android_bundle_id = None => Times(RegisterAndroidCmd) = 0
    /\ SetupReturned /\ android_bundle_id = None /\ IosPresent
          => /\ Times(RegisterAndroidCmd) = 0
             /\ Times(DownloadAndroidCmd) = 1
             /\ Times(RegisterIosCmd) = 1
             /\ Times(DownloadIosCmd) = 1
    /\ ReachedProvisioning /\ ~SetupReturned /\ android_bundle_id = None /\ IosPresent
          => /\ SettingsDirBlocked
             /\ exit_status = Exit(1)
             /\ Times(RegisterIosCmd) = 1
             /\ Times(DownloadIosCmd) = 0
             /\ Times(DownloadAndroidCmd) = 0

C4_Witness ==
    /\ pc = "exited" /\ exit_status = Exit(0)
    /\ android_bundle_id = None /\ IosPresent
    /\ fs[SettingsPath].text = NoAndroidDoc
    /\ Times(DownloadAndroidCmd) = 1

C4_WitnessBlocked ==
    /\ ReachedProvisioning /\ ~SetupReturned
    /\ android_bundle_id = None /\ IosPresent

Expected(name) == [i \in 1..Len(FourFiles) |-> boilerplate(name)[i].content]

(* C9: in every run that reaches provisioning,                             *)
(* generate_boilerplate writes the four fixed files, each once and no      *)
(* other, replacing what was there, and only the workflow file's content    *)
(* depends on the game name.                                                *)
C9_AlwaysFourFiles ==
    /\ written \in {<<>>, FourFiles}
    /\ (pc \in {"generate_gemfile_lock", "summary"} \/ ReachedProvisioning)
          => /\ written = FourFiles
             /\ \A i \in 1..Len(FourFiles) : fs[FourFiles[i]] = Expected(argv[1])[i]
    /\ IsFile(fs, OtherPath) => fs[OtherPath] = Content("old", <<>>)

(* C10: when the login check fails, the login notice is printed and        *)
(* firebase login is invoked once before identifier extraction; when it    *)
(* succeeds, firebase login is not invoked.                                 *)
C10_LoginOnFailedCheck ==
    /\ Failed(ListCmd)
          => /\ Times(LoginCmd) = 1
             /\ "You need to log in to Firebase." \in Range(printed)
    /\ Times(ListCmd) = 1 /\ ~Failed(ListCmd) => Times(LoginCmd) = 0

====
